---------------------------- MODULE Spec2Model ----------------------------
(*
  A model of db-migrator (xiezhihuan/db-migrator).

  Part I  : the Migration Runner (internal/migrator, type Migrator): the
            ledger table, the lock row, and concurrent callers of Up / Down
            against one database.                     Specification: Spec
  Part II : the Dependency Resolver (sqlparser, Parser.SortByDependencies):
            Kahn's algorithm over Go maps followed by the kind/name sort.
                                                      Specification: SpecResolver
            The same over all seven statement kinds.
                                                 Specification: SpecResolverKinds
  Part III: the Multi-Database Orchestrator (MultiMigrator.Up / Down over a
            list of databases) and its membership rule shouldApplyToDatabase.
                                           Specifications: SpecOrch, SpecApply
  Part IV : the Batch Data Loader (database.Inserter.InsertFromSQLFile).
                                 Specifications: SpecInsert, SpecInsertExample
  Part V  : the Cross-Database Copier (datacopy.CopyToMultipleDatabases).
                                                      Specification: SpecCopy
  Part VI : the Script Parser (sqlparser.Parser.ParseFile), one Parser
            parsing a script twice, character by character.
                                                      Specification: SpecParser
  Part VII: the Database Creator (database.Creator.CreateFromSQLFile).
                                                      Specification: SpecCreator
  Part VIII: the Database Manager (database.Manager.GetMatchedDatabases,
            called from resolveDatabases).
                                                      Specification: SpecManager
  Part IX : Migrator.Init, called repeatedly on one database.
                                                      Specification: SpecSetup

  Every specification starts with the other parts idle and leaves their
  variables unchanged.

  Versions are modelled as naturals ordered like the version strings
  ("001" < "002" < ...); version 0 stands for a unit that was applied by an
  earlier build and is no longer registered.  The ledger's applied_at column
  is a TIMESTAMP with one-second granularity: rows written while the clock
  shows the same second carry the same applied_at.
*)
EXTENDS Integers, Sequences, FiniteSets, TLC

\* ------------------------------------------------------------------ bounds
MaxVersion == 2      \* registered units carry versions 1..MaxVersion
MaxClock   == 2      \* seconds the clock can show: 1..MaxClock
MaxStmts   == 2      \* statements in one batch given to the resolver

\* Two processes run the migrator against the same database.
Runners  == {"r1", "r2"}
Versions == 1..MaxVersion

VARIABLES
  \* ---- the database (shared by all runners)
  ledger,      \* committed rows of schema_migrations
  effects,     \* versions whose up-action effects are committed in the schema
  locked,      \* schema_migrations_lock.locked of the row id = 1
  clock,       \* NOW() / CURRENT_TIMESTAMP, in seconds
  \* ---- configuration, the same file for every process
  dryRun,      \* m.config.DryRun
  \* ---- one Migrator per runner (process)
  migrations,  \* m.migrations, the registered units in slice order
  pc,          \* position of the runner inside Up / Down
  op,          \* "Up" | "Down" | "none"
  steps,       \* Down's steps argument (after the clip of line 423)
  applied,     \* Up: set of applied versions; Down: ordered records
  idx,         \* loop index into migrations (Up) or applied (Down)
  result,      \* what the call returns
  \* ---- history, recorded for the properties
  ran,         \* up/down actions executed by this call, in order
  lostTo,      \* runners inside the lock when this call lost the lock
  startLedger, \* ledger when this call acquired the lock
  lastRun,     \* the last completed call that held the lock
  \* ---- the resolver (Part II)
  statements, inDegree, graph, stmtMap, queue, sorted, processed, rpc, output,
  \* ---- the orchestrator (Part III): one MultiMigrator and its databases
  databases,   \* the databases argument of Up / Down (after the default)
  mmOp,        \* "Up" | "Down"
  mmSteps,     \* Down's steps argument
  mmPc,        \* "call" | "loop" | "done"
  mmIdx,       \* position of the range loop in databases
  errors,      \* the errors slice: one entry per failed database
  mmResult,    \* what Up / Down returns
  connections, \* Manager.connections (keys)
  migrators,   \* MultiMigrator.migrators: database -> registered versions
  dbApplied,   \* per database: versions recorded as applied in its ledger
  attempts,    \* history: one entry per database the loop has handled
  \* ---- one call of shouldApplyToDatabase (Part III)
  unit,        \* the migration argument
  candidate,   \* the dbName argument
  defaultRes,  \* what GetDefaultDatabase returns: name and error
  applies,     \* the result: "yes" | "no", and "none" before the call
  \* ---- the batch data loader (Part IV): one call of InsertFromSQLFile
  insStatements, \* what ParseInsertFile returned: table and number of rows
  insConfig,     \* types.DataInsertConfig
  missing,       \* tables that do not exist in the target database
  written,       \* rows of the file that are durably in the target
  txRows,        \* rows written inside the open transaction
  insPc,         \* "parse" | "validate" | "exec" | "summary" | "done"
  stmtIdx,       \* the statement ExecuteInsertStatements is at
  batchIndex,    \* the batch executeBatchInsert is at
  execCalls,     \* history: every ExecContext call, in order
  insErr,        \* the error InsertFromSQLFile returns
  insResult,     \* the *DataInsertResult it returns
  \* ---- the cross-database copier (Part V): one CopyToMultipleDatabases
  targetDBs,     \* the targetDBs argument
  copyTables,    \* config.Tables
  onError,       \* config.OnError as given by the caller
  copyPc,        \* "copy" | "done"
  targetIdx,     \* position of the loop over targetDBs
  tableIdx,      \* position of CopyData's loop over the tables
  tableErrors,   \* CopyData's errors slice
  copyErrors,    \* CopyToMultipleDatabases' errors slice (database names)
  copied,        \* history: <<database, table>> pairs copied
  copyAttempts,  \* history: one entry per target handled
  copyResult,    \* what CopyToMultipleDatabases returns
  \* ---- the script parser (Part VI): one Parser, ParseFile called twice
  script,             \* the lines of the file
  delimiter,          \* Parser.delimiter
  parsePc,            \* "start" | "scan" | "done"
  parseRun,           \* which call of ParseFile this is: 1 or 2
  lineNumber,         \* lines read by the scanner
  currentStatement,   \* the strings.Builder
  inMultiLineComment, inString, stringChar,
  parsed,             \* the statements slice of the running call
  ends,               \* history: statement ends seen by the running call
  firstParse,         \* what the first call returned
  \* ---- the database creator (Part VII): one CreateFromSQLFile
  crInput,       \* the call: the statements of the file, config.IfExists
  crPc,          \* position in CreateFromSQLFile / ExecuteSQLFile
  dbExists,      \* the target database exists on the server
  dbCreated,     \* history: this call has executed CREATE DATABASE
  ddlExecuted,   \* history: statements of the file executed so far
  crErr,         \* the error CreateFromSQLFile returns, "none" for nil
  \* ---- the database manager (Part VIII): one resolveDatabases
  mgrInput,      \* the flags, the configuration and the server's databases
  mgrPc,         \* position in resolveDatabases / DiscoverDatabases
  mgrDatabases,  \* the databases slice of DiscoverDatabases
  mgrMatched,    \* what resolveDatabases returns
  \* ---- Migrator.Init on a database (Part IX)
  dbTables,      \* the tables that exist in the database
  lockRows,      \* rows of schema_migrations_lock
  ledgerRows,    \* versions recorded in schema_migrations
  initPc,        \* position in Init
  initErr,       \* the error Init returns, "none" for nil
  initCalls,     \* calls of Init so far
  initBefore     \* history: the tables' rows when the running call began

mvars == <<ledger, effects, locked, clock, dryRun, migrations, pc, op, steps,
           applied, idx, result, ran, lostTo, startLedger, lastRun>>
rvars == <<statements, inDegree, graph, stmtMap, queue, sorted, processed,
           rpc, output>>
ovars == <<databases, mmOp, mmSteps, mmPc, mmIdx, errors, mmResult,
           connections, migrators, dbApplied, attempts>>
avars == <<unit, candidate, defaultRes, applies>>
ivars == <<insStatements, insConfig, missing, written, txRows, insPc, stmtIdx,
           batchIndex, execCalls, insErr, insResult>>
cvars == <<targetDBs, copyTables, onError, copyPc, targetIdx, tableIdx,
           tableErrors, copyErrors, copied, copyAttempts, copyResult>>
pvars == <<script, delimiter, parsePc, parseRun, lineNumber, currentStatement,
           inMultiLineComment, inString, stringChar, parsed, ends, firstParse>>
kvars == <<crInput, crPc, dbExists, dbCreated, ddlExecuted, crErr>>
gvars == <<mgrInput, mgrPc, mgrDatabases, mgrMatched>>
nvars == <<dbTables, lockRows, ledgerRows, initPc, initErr, initCalls, initBefore>>
xvars == <<ovars, avars, ivars, cvars, pvars, kvars, gvars, nvars>>
restO == <<mvars, rvars, avars, ivars, cvars, pvars, kvars, gvars, nvars>>
restA == <<mvars, rvars, ovars, ivars, cvars, pvars, kvars, gvars, nvars>>
restI == <<mvars, rvars, ovars, avars, cvars, pvars, kvars, gvars, nvars>>
restC == <<mvars, rvars, ovars, avars, ivars, pvars, kvars, gvars, nvars>>
restP == <<mvars, rvars, ovars, avars, ivars, cvars, kvars, gvars, nvars>>
restK == <<mvars, rvars, ovars, avars, ivars, cvars, pvars, gvars, nvars>>
restG == <<mvars, rvars, ovars, avars, ivars, cvars, pvars, kvars, nvars>>
restN == <<mvars, rvars, ovars, avars, ivars, cvars, pvars, kvars, gvars>>
vars  == <<mvars, rvars, xvars>>

\* --------------------------------------------------------------- helpers
Range(s) == {s[i] : i \in DOMAIN s}

\* All orderings of a finite set, as sequences without repetition.
Perms(S) ==
  {s \in [1..Cardinality(S) -> S] : \A i, j \in DOMAIN s : i # j => s[i] # s[j]}

\* ======================================================================
\* Part I : the Migration Runner
\* ======================================================================

\* A row of the ledger table (version is the primary key).
Row(v, success, msg, now) ==
  [version |-> v, success |-> success, applied_at |-> now, error_msg |-> msg]

\* The statuses executeMigration's environment can produce for one unit:
\* everything works, the unit's own action returns an error, db.Begin fails,
\* tx.Commit fails.
Outcomes == {"ok", "actionErr", "beginErr", "commitErr"}

NoRun == [op |-> "none", ok |-> FALSE, n |-> 0, before |-> {}]

\* RegisterMigration appends: the slice holds the units in the order the
\* program registers them, here newest first.
Registered == [i \in 1..MaxVersion |-> MaxVersion + 1 - i]

\* Runners between a successful acquireLock and the deferred releaseLock.
Holders == {r \in Runners : pc[r] \in {"query", "loop", "release"}}

\* acquireLock: rows affected by
\*   UPDATE lock SET locked = TRUE ... WHERE id = 1 AND locked = FALSE
AcquireAffectedNoGuard(lk) == 1
AcquireAffected(lk) == IF lk = FALSE THEN 1 ELSE 0

\* Up / Down: when acquireLock fails the call returns at once (lines 360-362
\* and 406-408); the deferred release is registered only after that test.
OnLockFailureDeferred == "release"
OnLockFailure == "done"

\* Up / Down: `defer m.releaseLock(ctx)` is registered right after the lock is
\* taken, so the release runs whatever the call returns.
ReleasesOnSuccessOnly(res) == res = "ok"
ReleasesOnExit(res) == TRUE

\* sortMigrations: sort.Slice by Version(), ascending.
sortMigrationsNone(ms) == ms
sortMigrations(ms) ==
  CHOOSE s \in Perms(Range(ms)) : \A i, j \in DOMAIN s : i < j => s[i] <= s[j]

\* getAppliedMigrations: SELECT ... WHERE success = TRUE, keyed by version.
getAppliedMigrations(lg) == {row.version : row \in {x \in lg : x.success}}

\* Up's loop test: the unit is skipped when its version is a key of the map.
IsAppliedNever(v, ap) == FALSE
IsApplied(v, ap) == v \in ap

\* getAppliedMigrationsOrdered(ctx, "DESC"): SELECT ... WHERE success = TRUE
\* ORDER BY applied_at DESC.  Rows with equal applied_at come back in an order
\* the database is free to choose: every such order is a possible result.
getAppliedMigrationsOrdered(lg) ==
  {s \in Perms({x \in lg : x.success}) :
     \A i, j \in DOMAIN s : i < j => s[i].applied_at >= s[j].applied_at}

\* recordMigration: INSERT INTO ledger (version, description, success,
\* error_msg); applied_at takes its default, CURRENT_TIMESTAMP.
PKConflict(rows, v) == \E x \in rows : x.version = v
recordMigration(rows, v, success, msg, now) == rows \cup {Row(v, success, msg, now)}

\* removeMigrationRecord: DELETE FROM ledger WHERE version = ?
removeMigrationRecord(rows, v) == {x \in rows : x.version # v}

\* The end of executeMigration: a unit error returns before tx.Commit, and the
\* deferred tx.Rollback then discards the transaction; a failing Commit
\* leaves the database as it was.
CommittedAlways(before, after, migrationErr, outcome) == after
CommittedOnUnitError(before, after, migrationErr, outcome) ==
  IF outcome = "commitErr" THEN before ELSE after
Committed(before, after, migrationErr, outcome) ==
  IF migrationErr \/ outcome = "commitErr" THEN before ELSE after

\* executeMigration(ctx, migration, isUp) on the database <<lg, ef>>:
\* the database afterwards, the error returned, and whether the unit's
\* action was run.
executeMigration(lg, ef, v, isUp, isDry, outcome, now) ==
  IF isDry
  THEN [ledger |-> lg, effects |-> ef, err |-> "none", acted |-> FALSE]
  ELSE IF outcome = "beginErr"
  THEN [ledger |-> lg, effects |-> ef, err |-> "beginErr", acted |-> FALSE]
  ELSE
    LET migrationErr == outcome = "actionErr"
        before == [ledger |-> lg, effects |-> ef]
        \* the action's statements run inside the transaction
        txEffects == IF isUp THEN ef \cup {v} ELSE ef \ {v}
        recordErr == isUp /\ PKConflict(lg, v)
        txLedger ==
          IF isUp
          THEN IF migrationErr
               THEN recordMigration(lg, v, FALSE, "error", now)
               ELSE recordMigration(lg, v, TRUE, "", now)
          ELSE removeMigrationRecord(lg, v)
        after == [ledger |-> txLedger, effects |-> txEffects]
        final == Committed(before, after, migrationErr, outcome)
    IN IF recordErr
       THEN [ledger |-> lg, effects |-> ef, err |-> "recordErr", acted |-> TRUE]
       ELSE [ledger |-> final.ledger, effects |-> final.effects,
             err |-> IF migrationErr THEN "actionErr"
                     ELSE IF outcome = "commitErr" THEN "commitErr" ELSE "none",
             acted |-> TRUE]

Min(a, b) == IF a < b THEN a ELSE b

\* ------------------------------------------------------------- actions

\* The orchestrator, when a specification is not about it.
OrchOff ==
  /\ databases = <<>> /\ mmOp = "none" /\ mmSteps = 0 /\ mmPc = "off"
  /\ mmIdx = 0 /\ errors = <<>> /\ mmResult = "none"
  /\ connections = {} /\ migrators = <<>> /\ dbApplied = <<>>
  /\ attempts = <<>>

\* shouldApplyToDatabase, when a specification is not about it.
ApplyOff ==
  /\ unit = <<>> /\ candidate = "" /\ defaultRes = <<>> /\ applies = "none"

\* The loader, when a specification is not about it.
InsertOff ==
  /\ insStatements = <<>> /\ insConfig = <<>> /\ missing = {}
  /\ written = {} /\ txRows = {} /\ insPc = "off" /\ stmtIdx = 0
  /\ batchIndex = 0 /\ execCalls = <<>> /\ insErr = <<>> /\ insResult = <<>>

\* The copier, when a specification is not about it.
CopyOff ==
  /\ targetDBs = <<>> /\ copyTables = <<>> /\ onError = "" /\ copyPc = "off"
  /\ targetIdx = 0 /\ tableIdx = 0 /\ tableErrors = <<>> /\ copyErrors = <<>>
  /\ copied = {} /\ copyAttempts = <<>> /\ copyResult = <<>>

\* The parser, when a specification is not about it.
ParserOff ==
  /\ script = <<>> /\ delimiter = <<>> /\ parsePc = "off" /\ parseRun = 0
  /\ lineNumber = 0 /\ currentStatement = <<>>
  /\ inMultiLineComment = FALSE /\ inString = FALSE /\ stringChar = ""
  /\ parsed = <<>> /\ ends = 0 /\ firstParse = <<>>

\* The creator, when a specification is not about it.
CreatorOff ==
  /\ crInput = <<>> /\ crPc = "off" /\ dbExists = FALSE /\ dbCreated = FALSE
  /\ ddlExecuted = 0 /\ crErr = "none"

\* The database manager, when a specification is not about it.
ManagerOff ==
  /\ mgrInput = <<>> /\ mgrPc = "off" /\ mgrDatabases = <<>> /\ mgrMatched = <<>>

\* Migrator.Init, when a specification is not about it.
SetupOff ==
  /\ dbTables = {} /\ lockRows = {} /\ ledgerRows = {} /\ initPc = "off"
  /\ initErr = "none" /\ initCalls = 0 /\ initBefore = <<>>

XOff == OrchOff /\ ApplyOff /\ InsertOff /\ CopyOff /\ ParserOff /\ CreatorOff /\ ManagerOff /\ SetupOff

ResolverOff ==
  /\ statements = <<>> /\ inDegree = <<>> /\ graph = <<>> /\ stmtMap = <<>>
  /\ queue = <<>> /\ sorted = <<>> /\ processed = 0 /\ rpc = "off"
  /\ output = [err |-> "none", list |-> <<>>]

\* After Migrator.Init: both tables exist, the lock row is unlocked.  The
\* ledger is empty, or holds one row of a unit applied by an earlier build
\* whose definition is not registered any more.
MInit ==
  /\ \E legacy \in BOOLEAN :
       /\ ledger = IF legacy THEN {Row(0, TRUE, "", 0)} ELSE {}
       /\ effects = IF legacy THEN {0} ELSE {}
  /\ locked = FALSE
  /\ clock = 1
  /\ dryRun \in BOOLEAN
  /\ migrations = [r \in Runners |-> Registered]
  /\ pc = [r \in Runners |-> "idle"]
  /\ op = [r \in Runners |-> "none"]
  /\ steps = [r \in Runners |-> 0]
  /\ applied = [r \in Runners |-> {}]
  /\ idx = [r \in Runners |-> 0]
  /\ result = [r \in Runners |-> "none"]
  /\ ran = [r \in Runners |-> <<>>]
  /\ lostTo = [r \in Runners |-> {}]
  /\ startLedger = [r \in Runners |-> {}]
  /\ lastRun = NoRun

Init == MInit /\ ResolverOff /\ XOff

dbvars   == <<ledger, effects, locked, clock>>
histvars == <<ran, lostTo, startLedger, lastRun>>

\* acquireLock as the first statement of Up / Down, and the early return
\* when it fails (the deferred release is not registered yet).
AcquireLock(r) ==
  IF AcquireAffected(locked) = 0
  THEN /\ pc' = [pc EXCEPT ![r] = OnLockFailure]
       /\ result' = [result EXCEPT ![r] = "lockErr"]
       /\ lostTo' = [lostTo EXCEPT ![r] = Holders]
       /\ UNCHANGED <<locked, startLedger>>
  ELSE /\ locked' = TRUE
       /\ pc' = [pc EXCEPT ![r] = "query"]
       /\ startLedger' = [startLedger EXCEPT ![r] = ledger]
       /\ UNCHANGED <<result, lostTo>>

\* A process calls Migrator.Up (lines 358-363).
CallUp(r) ==
  /\ pc[r] = "idle"
  /\ AcquireLock(r)
  /\ op' = [op EXCEPT ![r] = IF pc'[r] = "done" THEN "none" ELSE "Up"]
  /\ UNCHANGED <<ledger, effects, clock, dryRun, migrations, steps, applied,
                 idx, ran, lastRun>>
  /\ UNCHANGED <<rvars, xvars>>

\* A process calls Migrator.Down(steps) (lines 400-409); steps <= 0 is
\* refused before the lock is touched.  A call that returns at once leaves
\* nothing of the call behind but its result.
CallDown(r) ==
  /\ pc[r] = "idle"
  /\ \E n \in 0..MaxVersion :
       IF n <= 0
       THEN /\ pc' = [pc EXCEPT ![r] = "done"]
            /\ result' = [result EXCEPT ![r] = "stepsErr"]
            /\ UNCHANGED <<op, steps, locked, lostTo, startLedger>>
       ELSE /\ AcquireLock(r)
            /\ op' = [op EXCEPT ![r] =
                        IF pc'[r] = "done" THEN "none" ELSE "Down"]
            /\ steps' = [steps EXCEPT ![r] =
                           IF pc'[r] = "done" THEN 0 ELSE n]
  /\ UNCHANGED <<ledger, effects, clock, dryRun, migrations, applied, idx,
                 ran, lastRun>>
  /\ UNCHANGED <<rvars, xvars>>

\* Up, lines 365-372: sortMigrations, then getAppliedMigrations.
QueryUp(r) ==
  /\ pc[r] = "query" /\ op[r] = "Up"
  /\ migrations' = [migrations EXCEPT ![r] = sortMigrations(migrations[r])]
  /\ \E queryFails \in BOOLEAN :
       IF queryFails
       THEN /\ result' = [result EXCEPT ![r] = "queryErr"]
            /\ pc' = [pc EXCEPT ![r] = "release"]
            /\ UNCHANGED <<applied, idx>>
       ELSE /\ applied' = [applied EXCEPT ![r] = getAppliedMigrations(ledger)]
            /\ idx' = [idx EXCEPT ![r] = 1]
            /\ pc' = [pc EXCEPT ![r] = "loop"]
            /\ UNCHANGED result
  /\ UNCHANGED <<dbvars, dryRun, op, steps, histvars>>
  /\ UNCHANGED <<rvars, xvars>>

\* Down, lines 411-425: getAppliedMigrationsOrdered, the empty case, the clip.
QueryDown(r) ==
  /\ pc[r] = "query" /\ op[r] = "Down"
  /\ \E queryFails \in BOOLEAN :
       IF queryFails
       THEN /\ result' = [result EXCEPT ![r] = "queryErr"]
            /\ pc' = [pc EXCEPT ![r] = "release"]
            /\ UNCHANGED <<applied, idx, steps>>
       ELSE \E ord \in getAppliedMigrationsOrdered(ledger) :
              /\ applied' = [applied EXCEPT ![r] = ord]
              /\ IF Len(ord) = 0
                 THEN /\ result' = [result EXCEPT ![r] = "ok"]
                      /\ pc' = [pc EXCEPT ![r] = "release"]
                      /\ UNCHANGED <<idx, steps>>
                 ELSE /\ steps' = [steps EXCEPT ![r] = Min(steps[r], Len(ord))]
                      /\ idx' = [idx EXCEPT ![r] = 1]
                      /\ pc' = [pc EXCEPT ![r] = "loop"]
                      /\ UNCHANGED result
  /\ UNCHANGED <<dbvars, dryRun, migrations, op, histvars>>
  /\ UNCHANGED <<rvars, xvars>>

\* One call of executeMigration by runner r, and what the caller's loop does
\* with its error.
Execute(r, v, isUp) ==
  \E outcome \in Outcomes :
    LET res == executeMigration(ledger, effects, v, isUp, dryRun, outcome, clock)
    IN /\ ledger' = res.ledger
       /\ effects' = res.effects
       /\ ran' = [ran EXCEPT ![r] =
                    IF res.acted
                    THEN Append(@, [version |-> v, err |-> res.err])
                    ELSE @]
       /\ IF res.err # "none"
          THEN /\ result' = [result EXCEPT ![r] = "unitErr"]
               /\ pc' = [pc EXCEPT ![r] = "release"]
               /\ UNCHANGED idx
          ELSE /\ idx' = [idx EXCEPT ![r] = @ + 1]
               /\ UNCHANGED <<result, pc>>

\* Up, lines 378-388: one iteration of the loop over m.migrations.
UpSkip(r) ==
  /\ pc[r] = "loop" /\ op[r] = "Up"
  /\ idx[r] <= Len(migrations[r])
  /\ IsApplied(migrations[r][idx[r]], applied[r])
  /\ idx' = [idx EXCEPT ![r] = @ + 1]
  /\ UNCHANGED <<dbvars, dryRun, migrations, pc, op, steps, applied, result,
                 histvars>>
  /\ UNCHANGED <<rvars, xvars>>

UpExecute(r) ==
  /\ pc[r] = "loop" /\ op[r] = "Up"
  /\ idx[r] <= Len(migrations[r])
  /\ ~IsApplied(migrations[r][idx[r]], applied[r])
  /\ Execute(r, migrations[r][idx[r]], TRUE)
  /\ UNCHANGED <<locked, clock, dryRun, migrations, op, steps, applied, lostTo,
                 startLedger, lastRun>>
  /\ UNCHANGED <<rvars, xvars>>

\* Up, lines 390-396: the loop is over, return nil.
UpFinish(r) ==
  /\ pc[r] = "loop" /\ op[r] = "Up"
  /\ idx[r] > Len(migrations[r])
  /\ result' = [result EXCEPT ![r] = "ok"]
  /\ pc' = [pc EXCEPT ![r] = "release"]
  /\ UNCHANGED <<dbvars, dryRun, migrations, op, steps, applied, idx, histvars>>
  /\ UNCHANGED <<rvars, xvars>>

\* Down, lines 436-448: one iteration of the loop over the first `steps`
\* records; a record whose unit is not registered is skipped.
DownSkip(r) ==
  /\ pc[r] = "loop" /\ op[r] = "Down"
  /\ idx[r] <= steps[r]
  /\ applied[r][idx[r]].version \notin Range(migrations[r])
  /\ idx' = [idx EXCEPT ![r] = @ + 1]
  /\ UNCHANGED <<dbvars, dryRun, migrations, pc, op, steps, applied, result,
                 histvars>>
  /\ UNCHANGED <<rvars, xvars>>

DownExecute(r) ==
  /\ pc[r] = "loop" /\ op[r] = "Down"
  /\ idx[r] <= steps[r]
  /\ applied[r][idx[r]].version \in Range(migrations[r])
  /\ Execute(r, applied[r][idx[r]].version, FALSE)
  /\ UNCHANGED <<locked, clock, dryRun, migrations, op, steps, applied, lostTo,
                 startLedger, lastRun>>
  /\ UNCHANGED <<rvars, xvars>>

\* Down, lines 450-451.
DownFinish(r) ==
  /\ pc[r] = "loop" /\ op[r] = "Down"
  /\ idx[r] > steps[r]
  /\ result' = [result EXCEPT ![r] = "ok"]
  /\ pc' = [pc EXCEPT ![r] = "release"]
  /\ UNCHANGED <<dbvars, dryRun, migrations, op, steps, applied, idx, histvars>>
  /\ UNCHANGED <<rvars, xvars>>

\* The units this call applied (Up) or reverted (Down).
Succeeded(r) == {i \in DOMAIN ran[r] : ran[r][i].err = "none"}

\* The deferred releaseLock: UPDATE lock SET locked = FALSE ... WHERE id = 1,
\* after which the call returns and its locals are gone.
ReleaseLock(r) ==
  /\ pc[r] = "release"
  /\ locked' = IF ReleasesOnExit(result[r]) THEN FALSE ELSE locked
  /\ pc' = [pc EXCEPT ![r] = "done"]
  /\ lastRun' = [op |-> op[r], ok |-> result[r] = "ok",
                 n |-> Cardinality(Succeeded(r)),
                 before |-> IF op[r] = "Up" /\ Succeeded(r) # {}
                            THEN startLedger[r] ELSE {}]
  /\ steps' = [steps EXCEPT ![r] = 0]
  /\ applied' = [applied EXCEPT ![r] = {}]
  /\ idx' = [idx EXCEPT ![r] = 0]
  /\ ran' = [ran EXCEPT ![r] = <<>>]
  /\ startLedger' = [startLedger EXCEPT ![r] = {}]
  /\ migrations' = [migrations EXCEPT ![r] = Registered]
  /\ op' = [op EXCEPT ![r] = "none"]
  /\ UNCHANGED <<ledger, effects, clock, dryRun, result, lostTo>>
  /\ UNCHANGED <<rvars, xvars>>

\* The process is over; a new process may be started in its place.
Return(r) ==
  /\ pc[r] = "done"
  /\ pc' = [pc EXCEPT ![r] = "idle"]
  /\ op' = [op EXCEPT ![r] = "none"]
  /\ steps' = [steps EXCEPT ![r] = 0]
  /\ result' = [result EXCEPT ![r] = "none"]
  /\ lostTo' = [lostTo EXCEPT ![r] = {}]
  /\ UNCHANGED <<dbvars, dryRun, migrations, applied, idx, ran, startLedger,
                 lastRun>>
  /\ UNCHANGED <<rvars, xvars>>

\* A second passes.
Tick ==
  /\ clock < MaxClock
  /\ clock' = clock + 1
  /\ UNCHANGED <<ledger, effects, locked, dryRun, migrations, pc, op, steps,
                 applied, idx, result, histvars>>
  /\ UNCHANGED <<rvars, xvars>>

Next ==
  \/ \E r \in Runners :
       \/ CallUp(r) \/ CallDown(r)
       \/ QueryUp(r) \/ QueryDown(r)
       \/ UpSkip(r) \/ UpExecute(r) \/ UpFinish(r)
       \/ DownSkip(r) \/ DownExecute(r) \/ DownFinish(r)
       \/ ReleaseLock(r) \/ Return(r)
  \/ Tick

Spec == Init /\ [][Next]_vars

\* ----------------------------------------------------------------------
\* Properties of the Migration Runner (checked under Spec).  A call's
\* outcome is read in the state where it has left its loop and is about to
\* run the deferred release (pc = "release"): the ledger of that state is
\* the ledger the call leaves behind.
\* ----------------------------------------------------------------------

Last(s) == s[Len(s)]

\* The call of runner r is an Up (a Down) whose last action returned an error.
UpActionFailed(r) ==
  /\ pc[r] = "release" /\ op[r] = "Up"
  /\ ran[r] # <<>> /\ Last(ran[r]).err = "actionErr"
DownActionFailed(r) ==
  /\ pc[r] = "release" /\ op[r] = "Down"
  /\ ran[r] # <<>> /\ Last(ran[r]).err = "actionErr"

\* C1: of the runners that call Up or Down while others are at work on the
\* same database, at most one is inside the lock at any time, and whoever is
\* inside has the lock row set; a caller that got the lock-contention error
\* lost to a runner that was inside the lock at that moment, has returned,
\* and has neither queried the ledger nor run any action.
C1_OneLockHolder ==
  /\ Cardinality(Holders) <= 1
  /\ Holders # {} => locked
  /\ \A r \in Runners :
       result[r] = "lockErr" =>
         /\ pc[r] = "done"
         /\ lostTo[r] # {} /\ r \notin lostTo[r]
         /\ ran[r] = <<>> /\ applied[r] = {} /\ idx[r] = 0

C1_Witness ==
  \E r1, r2 \in Runners :
    /\ r1 # r2
    /\ pc[r1] = "loop" /\ ran[r1] # <<>>
    /\ result[r2] = "lockErr" /\ lostTo[r2] = {r1}

\* C2: an Up that directly follows a successful Up runs no up-action and
\* leaves the ledger as it found it.
C2_SecondUpIsNoOp ==
  \A r \in Runners :
    (pc[r] = "release" /\ op[r] = "Up" /\ lastRun.op = "Up" /\ lastRun.ok) =>
      /\ ran[r] = <<>>
      /\ ledger = startLedger[r]
      /\ result[r] \in {"ok", "queryErr"}

C2_Witness ==
  \E r \in Runners :
    /\ pc[r] = "release" /\ op[r] = "Up" /\ result[r] = "ok"
    /\ lastRun.op = "Up" /\ lastRun.ok /\ lastRun.n >= 1
    /\ ~dryRun

\* C3: when a unit's up-action fails, its transaction is rolled back (none of
\* its effects is in the schema) and no ledger row marks its version as
\* applied, so the next Up finds the unit pending.
C3_FailedUpRolledBack ==
  \A r \in Runners :
    UpActionFailed(r) =>
      LET v == Last(ran[r]).version
      IN /\ v \notin effects
         /\ v \notin getAppliedMigrations(ledger)
         /\ ~IsApplied(v, getAppliedMigrations(ledger))
         /\ result[r] = "unitErr"

C3_Witness ==
  \E r \in Runners : UpActionFailed(r) /\ Len(ran[r]) >= 2

\* C4: when a unit's up-action fails, the ledger left behind by Up holds a
\* failed row for that version: success = false, with the error message.
C4_FailedRowRecorded ==
  \A r \in Runners :
    UpActionFailed(r) =>
      \E row \in ledger :
        /\ row.version = Last(ran[r]).version
        /\ ~row.success
        /\ row.error_msg = "error"

\* C5: Up runs the pending units in strictly ascending version order, skipping
\* none; each unit it has run successfully is committed in the ledger before
\* the next one starts; an error ends the run, so only the last unit run can
\* be a failed one, and the units committed before it stay applied.
C5_AscendingStopAtFirstFailure ==
  \A r \in Runners :
    (op[r] = "Up" /\ pc[r] \in {"loop", "release"}) =>
      /\ \A i, j \in DOMAIN ran[r] : i < j => ran[r][i].version < ran[r][j].version
      /\ \A i \in DOMAIN ran[r] :
           /\ i < Len(ran[r]) => ran[r][i].err = "none"
           /\ ran[r][i].err = "none" =>
                ran[r][i].version \in getAppliedMigrations(ledger)
           /\ ran[r][i].err # "none" => pc[r] = "release" /\ result[r] = "unitErr"
           /\ \A v \in Versions :
                v < ran[r][i].version =>
                  \/ v \in getAppliedMigrations(startLedger[r])
                  \/ \E j \in 1..(i - 1) : ran[r][j].version = v

C5_Witness ==
  \E r \in Runners :
    /\ op[r] = "Up" /\ pc[r] = "release" /\ result[r] = "unitErr"
    /\ Len(ran[r]) >= 2
    /\ ran[r][1].err = "none"
    /\ Last(ran[r]).err = "actionErr"

\* C6: a Down(N) whose down-actions all succeed, run directly after an Up that
\* applied N units, leaves the ledger exactly as it was before that Up.
C6_UpThenDownRestoresLedger ==
  \A r \in Runners :
    ( /\ pc[r] = "release" /\ op[r] = "Down" /\ result[r] = "ok"
      /\ ~dryRun
      /\ lastRun.op = "Up" /\ lastRun.n >= 1
      /\ steps[r] = lastRun.n )
    => ledger = lastRun.before

\* C7: when a unit's down-action fails, its transaction is rolled back: the
\* unit's ledger row is still there as it was, still marked applied, and the
\* unit's effects are still in the schema; Down returns the error, and the
\* failing unit is the last one this run touched.
C7_FailedDownKeepsRow ==
  \A r \in Runners :
    DownActionFailed(r) =>
      LET v == Last(ran[r]).version
      IN /\ v \in getAppliedMigrations(ledger)
         /\ {x \in ledger : x.version = v} = {x \in startLedger[r] : x.version = v}
         /\ v \in effects
         /\ result[r] = "unitErr"
         /\ \A i \in 1..(Len(ran[r]) - 1) : ran[r][i].err = "none"

C7_Witness ==
  \E r \in Runners : DownActionFailed(r) /\ Len(ran[r]) >= 2

\* The call of runner r got past acquireLock: it returns success (also when
\* there was nothing to apply or revert), a ledger query error or a unit's error.
Acquired(r) == result[r] \in {"ok", "queryErr", "unitErr"}

C27_DownRevertsNewestFirst ==
  \A r \in Runners :
    ( /\ pc[r] = "loop" /\ op[r] = "Down"
      /\ lastRun.op = "Up" /\ lastRun.n = MaxVersion )
    => \A i, j \in DOMAIN applied[r] :
         (i < j /\ applied[r][i].version \in Versions
                /\ applied[r][j].version \in Versions)
           => applied[r][i].version > applied[r][j].version

\* C28: the lock row is set to unlocked only by the runner that holds the
\* lock, at its own release, and while no other runner is between its
\* acquire and its release; a runner whose acquireLock failed releases
\* nothing.
C28_ReleaseOnlyByHolder ==
  [][ (locked /\ ~locked') =>
        \E r \in Runners :
          /\ pc[r] = "release" /\ pc'[r] = "done"
          /\ result[r] # "lockErr"
          /\ Holders = {r} ]_vars

\* A runner has lost the lock to another and has returned, the other is in
\* its loop, has executed a unit, and the lock is still set.
C28_Witness ==
  \E r1, r2 \in Runners :
    /\ r1 # r2
    /\ pc[r1] = "done" /\ result[r1] = "lockErr"
    /\ pc[r2] = "loop" /\ ran[r2] # <<>>
    /\ locked

\* ======================================================================
\* Part II : the Dependency Resolver (Parser.SortByDependencies)
\* ======================================================================

\* Object names of the batch, and one table that exists outside it.
Names    == {"customers", "order_items", "orders"}
External == "products"

\* The UTF-8 bytes of a name: Go compares strings byte by byte.
Bytes(n) ==
  CASE n = "customers"   -> <<99, 117, 115, 116, 111, 109, 101, 114, 115>>
    [] n = "order_items" -> <<111, 114, 100, 101, 114, 95, 105, 116, 101, 109, 115>>
    [] n = "orders"      -> <<111, 114, 100, 101, 114, 115>>
    [] n = "products"    -> <<112, 114, 111, 100, 117, 99, 116, 115>>
    [] n = "unknown"     -> <<117, 110, 107, 110, 111, 119, 110>>

\* a < b on Go strings.
StrLess(a, b) ==
  LET x == Bytes(a)
      y == Bytes(b)
  IN \E k \in 1..(Len(y)) :
       /\ \A i \in 1..(k - 1) : i <= Len(x) /\ x[i] = y[i]
       /\ \/ k = Len(x) + 1
          \/ k <= Len(x) /\ x[k] < y[k]

Types == {"CREATE_TABLE", "CREATE_VIEW"}

\* What the dependency extraction can yield for one statement: nothing, one
\* reference (to an object of the batch or to an external table), or the
\* same object referenced twice.
DepLists ==
  {<<>>} \cup {<<d>> : d \in Names \cup {External}} \cup {<<"orders", "orders">>}

\* types.SQLStatement, without its text.
StmtUniverse == [type : Types, name : Names, deps : DepLists]

\* typeOrder: a Go map; a missing key reads as 0.
typeOrder(t) ==
  CASE t = "CREATE_TABLE"     -> 1
    [] t = "CREATE_VIEW"      -> 2
    [] t = "CREATE_PROCEDURE" -> 3
    [] t = "CREATE_FUNCTION"  -> 3
    [] t = "CREATE_TRIGGER"   -> 4
    [] t = "CREATE_INDEX"     -> 5
    [] t = "CREATE_OTHER"     -> 6
    [] OTHER                  -> 0

\* The less function handed to sort.Slice (lines 448-453).
LessKindOnly(a, b) == typeOrder(a.type) < typeOrder(b.type)
Less(a, b) ==
  IF typeOrder(a.type) # typeOrder(b.type)
  THEN typeOrder(a.type) < typeOrder(b.type)
  ELSE StrLess(a.name, b.name)

\* sort.Slice(result, less): every arrangement of the slice in which no
\* element is less than one before it (the sort is not stable).
SortSlice(list) ==
  {s \in {[i \in DOMAIN list |-> list[f[i]]] : f \in Perms(DOMAIN list)} :
     \A i, j \in DOMAIN s : i < j => ~Less(s[j], s[i])}

\* Lines 390-395: the three maps, keyed by stmt.Name; a later statement of
\* the same name overwrites the earlier one in stmtMap.
KeysOf(stmts) == {stmts[i].name : i \in DOMAIN stmts}
LastIndex(stmts, n) ==
  CHOOSE i \in DOMAIN stmts :
    stmts[i].name = n /\ \A j \in DOMAIN stmts : stmts[j].name = n => j <= i
BuildStmtMap(stmts) == [n \in KeysOf(stmts) |-> stmts[LastIndex(stmts, n)]]

\* Lines 398-405: the (statement, dependency) pairs whose dependency is a key
\* of stmtMap, in the order the two loops visit them.
RECURSIVE DepPairs(_, _)
DepPairs(stmts, keys) ==
  IF stmts = <<>> THEN <<>>
  ELSE LET st == Head(stmts)
           own == SelectSeq(st.deps, LAMBDA d : d \in keys)
       IN [i \in DOMAIN own |-> [from |-> st.name, to |-> own[i]]]
          \o DepPairs(Tail(stmts), keys)

\* graph[dep] = append(graph[dep], stmt.Name)
BuildGraph(stmts) ==
  LET keys == KeysOf(stmts)
      pairs == DepPairs(stmts, keys)
  IN [n \in keys |->
        LET mine == SelectSeq(pairs, LAMBDA e : e.to = n)
        IN [i \in DOMAIN mine |-> mine[i].from]]

\* inDegree[stmt.Name]++
BuildInDegree(stmts) ==
  LET keys == KeysOf(stmts)
      pairs == DepPairs(stmts, keys)
  IN [n \in keys |-> Cardinality({i \in DOMAIN pairs : pairs[i].from = n})]

\* Lines 425-430: the neighbours of the popped node, one after the other.
RECURSIVE Relax(_, _, _)
Relax(nbrs, deg, q) ==
  IF nbrs = <<>> THEN [deg |-> deg, queue |-> q]
  ELSE LET n == Head(nbrs)
           d == [deg EXCEPT ![n] = @ - 1]
       IN Relax(Tail(nbrs), d, IF d[n] = 0 THEN Append(q, n) ELSE q)

\* Line 433: the test that decides between an order and the cycle error.
CycleDetectedNever(done, total) == FALSE
CycleDetected(done, total) == done # total

NoOutput == [err |-> "none", list |-> <<>>]

MOff ==
  /\ ledger = {} /\ effects = {} /\ locked = FALSE /\ clock = 1
  /\ dryRun = FALSE
  /\ migrations = [r \in Runners |-> Registered]
  /\ pc = [r \in Runners |-> "idle"]
  /\ op = [r \in Runners |-> "none"]
  /\ steps = [r \in Runners |-> 0]
  /\ applied = [r \in Runners |-> {}]
  /\ idx = [r \in Runners |-> 0]
  /\ result = [r \in Runners |-> "none"]
  /\ ran = [r \in Runners |-> <<>>]
  /\ lostTo = [r \in Runners |-> {}]
  /\ startLedger = [r \in Runners |-> {}]
  /\ lastRun = NoRun

\* SortByDependencies is called with any list of at most MaxStmts statements.
RInit ==
  /\ statements \in UNION {[1..n -> StmtUniverse] : n \in 0..MaxStmts}
  /\ inDegree = <<>> /\ graph = <<>> /\ stmtMap = <<>>
  /\ queue = <<>> /\ sorted = <<>> /\ processed = 0
  /\ rpc = "build"
  /\ output = NoOutput

\* Lines 384-405.
RBuild ==
  /\ rpc = "build"
  /\ stmtMap' = BuildStmtMap(statements)
  /\ graph' = BuildGraph(statements)
  /\ inDegree' = BuildInDegree(statements)
  /\ rpc' = "seed"
  /\ UNCHANGED <<statements, queue, sorted, processed, output>>
  /\ UNCHANGED <<mvars, xvars>>

\* Lines 408-413: range over the inDegree map; Go visits the keys in an
\* order of its own choosing.
RSeed ==
  /\ rpc = "seed"
  /\ \E q \in Perms({n \in DOMAIN inDegree : inDegree[n] = 0}) : queue' = q
  /\ rpc' = "loop"
  /\ UNCHANGED <<statements, inDegree, graph, stmtMap, sorted, processed, output>>
  /\ UNCHANGED <<mvars, xvars>>

\* Lines 418-431: one iteration of `for len(queue) > 0`.
RPop ==
  /\ rpc = "loop"
  /\ Len(queue) > 0
  /\ LET current == Head(queue)
         nxt == Relax(graph[current], inDegree, Tail(queue))
     IN /\ sorted' = Append(sorted, stmtMap[current])
        /\ processed' = processed + 1
        /\ inDegree' = nxt.deg
        /\ queue' = nxt.queue
  /\ UNCHANGED <<statements, graph, stmtMap, rpc, output>>
  /\ UNCHANGED <<mvars, xvars>>

\* Lines 433-435: fewer nodes emitted than statements given.
RCycle ==
  /\ rpc = "loop"
  /\ Len(queue) = 0
  /\ CycleDetected(processed, Len(statements))
  /\ output' = [err |-> "cycle", list |-> <<>>]
  /\ rpc' = "done"
  /\ UNCHANGED <<statements, inDegree, graph, stmtMap, queue, sorted, processed>>
  /\ UNCHANGED <<mvars, xvars>>

\* Lines 437-455: the sort by kind priority and name, and the return.
RSort ==
  /\ rpc = "loop"
  /\ Len(queue) = 0
  /\ ~CycleDetected(processed, Len(statements))
  /\ \E s \in SortSlice(sorted) : output' = [err |-> "none", list |-> s]
  /\ rpc' = "done"
  /\ UNCHANGED <<statements, inDegree, graph, stmtMap, queue, sorted, processed>>
  /\ UNCHANGED <<mvars, xvars>>

RNext == RBuild \/ RSeed \/ RPop \/ RCycle \/ RSort

InitResolver == MOff /\ RInit /\ XOff

SpecResolver == InitResolver /\ [][RNext]_vars

\* ----------------------------------------------------------------------
\* Properties of the Dependency Resolver (checked under SpecResolver).
\* ----------------------------------------------------------------------

\* The dependency graph of the batch: n -> d when a statement named n lists
\* d and some statement of the batch is named d.
DepEdges(stmts) ==
  {e \in KeysOf(stmts) \X KeysOf(stmts) :
     \E i \in DOMAIN stmts : stmts[i].name = e[1] /\ e[2] \in Range(stmts[i].deps)}

RECURSIVE Closure(_, _)
Closure(R, k) ==
  IF k = 0 THEN R
  ELSE Closure(R \cup {<<p[1][1], p[2][2]>> :
                         p \in {q \in R \X R : q[1][2] = q[2][1]}},
               k - 1)

HasCycle(stmts) ==
  LET reach == Closure(DepEdges(stmts), Cardinality(KeysOf(stmts)))
  IN \E n \in KeysOf(stmts) : <<n, n>> \in reach

\* C9: in the list the resolver returns, every statement comes after each
\* statement of the batch that it depends on.
C9_DependenciesFirst ==
  (rpc = "done" /\ output.err = "none") =>
    \A p, q \in DOMAIN output.list :
      output.list[p].name \in Range(output.list[q].deps) => p < q

\* C10: for a batch whose dependency graph has a cycle, the resolver returns
\* the cycle error and no list; a list is never put out for such a batch.
C10_CycleIsAnError ==
  HasCycle(statements) =>
    /\ output.list = <<>>
    /\ rpc = "done" => output.err = "cycle"

C10_Witness ==
  /\ rpc = "done" /\ output.err = "cycle"
  /\ \E a, b \in KeysOf(statements) :
       /\ a # b
       /\ <<a, b>> \in DepEdges(statements)
       /\ <<b, a>> \in DepEdges(statements)
       /\ <<a, a>> \notin DepEdges(statements)
       /\ <<b, b>> \notin DepEdges(statements)

\* ----------------------------------------------------------------------
\* The resolver over every kind of statement the parser produces
\* (Specification: SpecResolverKinds).
\* ----------------------------------------------------------------------

AllTypes == {"CREATE_TABLE", "CREATE_VIEW", "CREATE_PROCEDURE", "CREATE_FUNCTION",
             "CREATE_TRIGGER", "CREATE_INDEX", "CREATE_OTHER"}

\* What parseStatement fills in: procedures and functions carry no
\* dependencies, a trigger and an index name their table, a table its
\* foreign keys, a view the tables it selects from; any other CREATE
\* statement is named "unknown".
KindUniverse ==
  {s \in [type : AllTypes, name : {"order_items", "orders", "unknown"},
          deps : {<<>>, <<"orders">>}] :
     /\ (s.type = "CREATE_OTHER") <=> (s.name = "unknown")
     /\ s.type \in {"CREATE_PROCEDURE", "CREATE_FUNCTION", "CREATE_OTHER"}
          => s.deps = <<>>}

RInitKinds ==
  /\ statements \in UNION {[1..n -> KindUniverse] : n \in 0..MaxStmts}
  /\ inDegree = <<>> /\ graph = <<>> /\ stmtMap = <<>>
  /\ queue = <<>> /\ sorted = <<>> /\ processed = 0
  /\ rpc = "build"
  /\ output = NoOutput

InitResolverKinds == MOff /\ RInitKinds /\ XOff

SpecResolverKinds == InitResolverKinds /\ [][RNext]_vars

\* The kind priority: tables < views < functions and procedures < triggers
\* < indexes < anything else.
KindPriority(t) ==
  CASE t = "CREATE_TABLE" -> 1
    [] t = "CREATE_VIEW" -> 2
    [] t \in {"CREATE_FUNCTION", "CREATE_PROCEDURE"} -> 3
    [] t = "CREATE_TRIGGER" -> 4
    [] t = "CREATE_INDEX" -> 5
    [] OTHER -> 6

\* a comes strictly before b by kind priority, then by name.
Before(a, b) ==
  \/ KindPriority(a.type) < KindPriority(b.type)
  \/ KindPriority(a.type) = KindPriority(b.type) /\ StrLess(a.name, b.name)

DistinctNames(stmts) == Cardinality(KeysOf(stmts)) = Len(stmts)

\* C11: the outcome of a run is fixed by the set of statements alone, not by
\* the order they are presented in nor by the order the maps are walked in:
\* a run succeeds exactly when the names are distinct and the graph has no
\* cycle, and the list it then returns holds exactly the given statements,
\* each strictly before the next by kind priority and then by name; there is
\* only one such sequence for a set.
C11_OutputFixedBySet ==
  rpc = "done" =>
    /\ (output.err = "none") <=> (DistinctNames(statements) /\ ~HasCycle(statements))
    /\ output.err = "none" =>
         /\ Len(output.list) = Len(statements)
         /\ Range(output.list) = Range(statements)
         /\ \A i, j \in DOMAIN output.list :
              i < j => Before(output.list[i], output.list[j])
    /\ output.err # "none" => output.list = <<>>

\* A procedure and a function (same priority) given in the order that the
\* resolver has to swap.
C11_Witness ==
  /\ rpc = "done" /\ output.err = "none"
  /\ Len(statements) = 2
  /\ {statements[1].type, statements[2].type} = {"CREATE_PROCEDURE", "CREATE_FUNCTION"}
  /\ output.list[1] = statements[2]
  /\ output.list[2] = statements[1]

\* ======================================================================
\* Part III : the Multi-Database Orchestrator (MultiMigrator)
\* ======================================================================

MaxTargets == 3     \* databases named in one call of Up / Down

\* The configured databases; "main" is config.Migrator.DefaultDatabase.
DBNames   == {"main", "shop"}
DefaultDB == "main"
MigrationsDir == "migrations"

\* filepath.Dir and filepath.Base on a path given by its components.
PathDir(p)  == IF Len(p) <= 1 THEN <<".">> ELSE SubSeq(p, 1, Len(p) - 1)
PathBase(p) == IF p = <<>> THEN "." ELSE p[Len(p)]

\* getMigrationPath: returns "" for every unit (lines 255-259).
getMigrationPath(migration) == <<>>

\* extractDatabaseFromPath (lines 262-274).
extractDatabaseFromPath(path) ==
  LET dir == PathDir(path)
      baseName == PathBase(dir)
      parentDir == PathDir(dir)
  IN IF PathBase(parentDir) = MigrationsDir THEN baseName ELSE ""

\* shouldApplyToDatabase (lines 216-252).  A unit is a record: multi says
\* whether it implements MultiDatabaseMigration, database and dbs are what
\* Database() and Databases() return, file is where it was loaded from.
\* def is what GetDefaultDatabase returns.
shouldApplyToDatabase(migration, db, def) ==
  IF migration.multi /\ migration.database # ""
  THEN migration.database = db
  ELSE IF migration.multi /\ Len(migration.dbs) > 0
  THEN \E i \in DOMAIN migration.dbs : migration.dbs[i] = db
  ELSE LET migrationPath == getMigrationPath(migration)
           pathDB == IF migrationPath # <<>>
                     THEN extractDatabaseFromPath(migrationPath) ELSE ""
       IN IF migrationPath # <<>> /\ pathDB # ""
          THEN pathDB = db
          ELSE IF def.err THEN FALSE ELSE db = def.name

\* The units registered with the orchestrator: version 1 declares nothing,
\* version 2 declares both databases.
OrchUnits ==
  << [version |-> 1, multi |-> FALSE, database |-> "", dbs |-> <<>>,
      file |-> <<"migrations", "001_init.go">>],
     [version |-> 2, multi |-> TRUE, database |-> "", dbs |-> <<"main", "shop">>,
      file |-> <<"migrations", "002_users.go">>] >>
OrchVersions == {OrchUnits[i].version : i \in DOMAIN OrchUnits}

\* Where the range loop goes after a failed database: `continue`.
AfterFailureStop(i, n) == n + 1
AfterFailure(i, n) == i + 1

\* GetMigrator (lines 38-66) when it succeeds: the cached migrator, or a new
\* one holding the units that apply to the database.  defOk says whether
\* GetDefaultDatabase could connect when shouldApplyToDatabase asked for it.
RegisteredFor(db, defOk) ==
  {OrchUnits[i].version : i \in
     {k \in DOMAIN OrchUnits :
        shouldApplyToDatabase(OrchUnits[k], db,
                              [name |-> DefaultDB, err |-> ~defOk])}}

GetMigratorOk(db, defOk) ==
  IF db \in DOMAIN migrators
  THEN [migs |-> migrators, conns |-> connections]
  ELSE [migs |-> [d \in DOMAIN migrators \cup {db} |->
                    IF d = db THEN RegisteredFor(db, defOk)
                    ELSE migrators[d]],
        conns |-> connections \cup {db}
                    \cup (IF defOk THEN {DefaultDB} ELSE {})]

\* GetDefaultDatabase connects unless the connection is cached.
DefaultOutcomes == IF DefaultDB \in connections THEN {TRUE} ELSE BOOLEAN

\* Migrator.Up on one database, seen from outside: it applies the pending
\* registered units in ascending order and stops at the first failure;
\* stop = 0 is a failure before any unit (Init, lock, ledger query).
UpOutcome(reg, app, stop) ==
  LET pending == reg \ app
  IN IF stop = -1 THEN [ok |-> TRUE, applied |-> app \cup reg]
     ELSE [ok |-> FALSE, applied |-> app \cup {v \in pending : v < stop}]

UpStops(reg, app) == {-1, 0} \cup (reg \ app)

\* Migrator.Down(steps) on one database, seen from outside: gone are the
\* units it reverted before it returned.
DownOutcome(app, gone, ok) == [ok |-> ok, applied |-> app \ gone]

DownChoices(app, n) ==
  LET todo == Min(n, Cardinality(app))
  IN {c \in [gone : SUBSET app, ok : BOOLEAN] :
        IF c.ok THEN Cardinality(c.gone) = todo
        ELSE Cardinality(c.gone) < todo \/ c.gone = {}}

OrchInit ==
  /\ databases \in UNION {[1..n -> DBNames] : n \in 0..MaxTargets}
  /\ mmOp \in {"Up", "Down"}
  /\ mmSteps \in 1..2
  /\ mmSteps = 1 \/ mmOp = "Down"
  /\ mmPc = "call"
  /\ mmIdx = 0
  /\ errors = <<>>
  /\ mmResult = "none"
  /\ connections = {}
  /\ migrators = <<>>
  /\ dbApplied \in {f \in [DBNames -> SUBSET OrchVersions] :
                      \A d \in DBNames : f[d] \in {{}, RegisteredFor(d, TRUE)}}
  /\ attempts = <<>>

\* Lines 70-79 / 106-115: an empty list stands for the default database.
MMCall ==
  /\ mmPc = "call"
  /\ IF Len(databases) = 0
     THEN \E defOk \in DefaultOutcomes :
            IF defOk
            THEN /\ databases' = <<DefaultDB>>
                 /\ connections' = connections \cup {DefaultDB}
                 /\ mmPc' = "loop" /\ mmIdx' = 1
                 /\ UNCHANGED mmResult
            ELSE /\ mmResult' = [err |-> "default", names |-> <<>>]
                 /\ mmPc' = "done"
                 /\ UNCHANGED <<databases, connections, mmIdx>>
     ELSE /\ mmPc' = "loop" /\ mmIdx' = 1
          /\ UNCHANGED <<databases, connections, mmResult>>
  /\ UNCHANGED <<mmOp, mmSteps, errors, migrators, dbApplied, attempts>>
  /\ UNCHANGED restO

\* Lines 82-86 / 118-122: GetMigrator fails (no migrator cached, and the
\* connection cannot be made); the database is noted and the loop goes on.
MMGetMigratorFails ==
  /\ mmPc = "loop" /\ mmIdx <= Len(databases)
  /\ LET db == databases[mmIdx]
     IN /\ db \notin DOMAIN migrators
        /\ db \notin connections
        /\ errors' = Append(errors, [db |-> db, cause |-> "connect"])
        /\ attempts' = Append(attempts, [db |-> db, ok |-> FALSE,
                                          after |-> dbApplied[db]])
  /\ mmIdx' = AfterFailure(mmIdx, Len(databases))
  /\ UNCHANGED <<databases, mmOp, mmSteps, mmPc, mmResult, connections,
                 migrators, dbApplied>>
  /\ UNCHANGED restO

\* One iteration in which GetMigrator succeeds: what migrator.Up or
\* migrator.Down can do to the database, and whether it returns an error.
Runs(db, reg) ==
  IF mmOp = "Up"
  THEN {UpOutcome(reg, dbApplied[db], stop) :
          stop \in UpStops(reg, dbApplied[db])}
  ELSE {DownOutcome(dbApplied[db], c.gone, c.ok) :
          c \in DownChoices(dbApplied[db], mmSteps)}

\* Lines 88-91 / 124-127: the migrator returns an error.
MMRunFails ==
  /\ mmPc = "loop" /\ mmIdx <= Len(databases)
  /\ LET db == databases[mmIdx]
     IN \E defOk \in DefaultOutcomes :
          LET g == GetMigratorOk(db, defOk)
          IN \E run \in Runs(db, g.migs[db]) :
               /\ ~run.ok
               /\ migrators' = g.migs
               /\ connections' = g.conns
               /\ dbApplied' = [dbApplied EXCEPT ![db] = run.applied]
               /\ errors' = Append(errors, [db |-> db, cause |-> "migrate"])
               /\ attempts' = Append(attempts, [db |-> db, ok |-> FALSE,
                                                 after |-> run.applied])
  /\ mmIdx' = AfterFailure(mmIdx, Len(databases))
  /\ UNCHANGED <<databases, mmOp, mmSteps, mmPc, mmResult>>
  /\ UNCHANGED restO

\* Lines 88-93 / 124-129: the migrator returns nil.
MMRunOk ==
  /\ mmPc = "loop" /\ mmIdx <= Len(databases)
  /\ LET db == databases[mmIdx]
     IN \E defOk \in DefaultOutcomes :
          LET g == GetMigratorOk(db, defOk)
          IN \E run \in Runs(db, g.migs[db]) :
               /\ run.ok
               /\ migrators' = g.migs
               /\ connections' = g.conns
               /\ dbApplied' = [dbApplied EXCEPT ![db] = run.applied]
               /\ attempts' = Append(attempts, [db |-> db, ok |-> TRUE,
                                                 after |-> run.applied])
  /\ mmIdx' = mmIdx + 1
  /\ UNCHANGED <<databases, mmOp, mmSteps, mmPc, mmResult, errors>>
  /\ UNCHANGED restO

\* Lines 96-101 / 132-137: the loop is over.
MMReturn ==
  /\ mmPc = "loop" /\ mmIdx > Len(databases)
  /\ mmResult' = IF Len(errors) > 0
                 THEN [err |-> "partial",
                       names |-> [i \in DOMAIN errors |-> errors[i].db]]
                 ELSE [err |-> "nil", names |-> <<>>]
  /\ mmPc' = "done"
  /\ UNCHANGED <<databases, mmOp, mmSteps, mmIdx, errors, connections,
                 migrators, dbApplied, attempts>>
  /\ UNCHANGED restO

OrchNext == MMCall \/ MMGetMigratorFails \/ MMRunFails \/ MMRunOk \/ MMReturn

InitOrch == MOff /\ ResolverOff /\ ApplyOff /\ InsertOff /\ CopyOff /\ ParserOff /\ CreatorOff /\ ManagerOff /\ SetupOff
  /\ OrchInit

SpecOrch == InitOrch /\ [][OrchNext]_vars

\* ----------------------------------------------------------------------
\* Properties of the orchestrator (checked under SpecOrch).
\* ----------------------------------------------------------------------

\* The last entry of the history that is about database d, 0 if none.
LastAttempt(d) ==
  IF \E i \in DOMAIN attempts : attempts[i].db = d
  THEN CHOOSE i \in DOMAIN attempts :
         attempts[i].db = d /\ \A j \in DOMAIN attempts : attempts[j].db = d => j <= i
  ELSE 0

\* C12: a call of Up or Down that was given targets handles every one of
\* them, in order, whatever failed before; when it returns, each database is
\* as its own (last) run left it, so what succeeded is not undone; and the
\* error returned names exactly the databases whose run failed, or is nil when
\* none failed.
C12_AllTargetsAttempted ==
  (mmPc = "done" /\ mmResult.err # "default") =>
    /\ Len(attempts) = Len(databases)
    /\ \A i \in DOMAIN attempts : attempts[i].db = databases[i]
    /\ \A d \in DBNames :
         LastAttempt(d) # 0 => dbApplied[d] = attempts[LastAttempt(d)].after
    /\ \A i \in DOMAIN attempts :
         (attempts[i].ok /\ mmOp = "Up" /\ LastAttempt(attempts[i].db) = i)
           => migrators[attempts[i].db] \subseteq dbApplied[attempts[i].db]
    /\ Range(mmResult.names) = {attempts[i].db : i \in {k \in DOMAIN attempts : ~attempts[k].ok}}
    /\ (mmResult.err = "nil") <=> (\A i \in DOMAIN attempts : attempts[i].ok)

\* The first target fails, two further targets are handled after it and one
\* of them is migrated.
C12_Witness ==
  /\ mmPc = "done" /\ mmOp = "Up"
  /\ Len(attempts) = 3
  /\ ~attempts[1].ok /\ attempts[2].ok /\ ~attempts[3].ok
  /\ attempts[2].db # attempts[1].db
  /\ dbApplied[attempts[2].db] # {}
  /\ Len(mmResult.names) = 2

\* ----------------------------------------------------------------------
\* shouldApplyToDatabase on its own (Specification: SpecApply): any unit,
\* any candidate database, any outcome of GetDefaultDatabase.
\* ----------------------------------------------------------------------

\* A unit that does not implement MultiDatabaseMigration has neither method.
UnitUniverse ==
  {u \in [version : {1}, multi : BOOLEAN, database : {""} \cup DBNames,
          dbs : {<<>>, <<"main">>, <<"shop">>, <<"main", "shop">>},
          file : {<<"migrations", "001_init.go">>,
                  <<"migrations", "main", "001_init.go">>,
                  <<"migrations", "shop", "001_init.go">>}] :
     ~u.multi => (u.database = "" /\ u.dbs = <<>>)}

ApplyInit ==
  /\ unit \in UnitUniverse
  /\ candidate \in DBNames
  /\ defaultRes \in [name : DBNames, err : BOOLEAN]
  /\ applies = "none"

ShouldApply ==
  /\ applies = "none"
  /\ applies' = IF shouldApplyToDatabase(unit, candidate, defaultRes)
                THEN "yes" ELSE "no"
  /\ UNCHANGED <<unit, candidate, defaultRes>>
  /\ UNCHANGED restA

InitApply == MOff /\ ResolverOff /\ OrchOff /\ InsertOff /\ CopyOff /\ ParserOff /\ CreatorOff /\ ManagerOff /\ SetupOff
  /\ ApplyInit

SpecApply == InitApply /\ [][ShouldApply]_vars

\* The four rules, highest first; a rule is absent when it yields "".
SingleDecl(u)  == IF u.multi THEN u.database ELSE ""
ListDecl(u)    == IF u.multi THEN u.dbs ELSE <<>>
DirectoryDB(u) == extractDatabaseFromPath(u.file)

\* C13: membership is decided by the first rule that is present: the single
\* database declared (exact match), else the list declared (membership), else
\* the database of the subdirectory the unit was loaded from, else the
\* resolved default database.
C13_PriorityOrder ==
  (applies # "none" /\ ~defaultRes.err) =>
    (applies = "yes") <=>
      IF SingleDecl(unit) # "" THEN candidate = SingleDecl(unit)
      ELSE IF ListDecl(unit) # <<>> THEN candidate \in Range(ListDecl(unit))
      ELSE IF DirectoryDB(unit) # "" THEN candidate = DirectoryDB(unit)
      ELSE candidate = defaultRes.name

\* ======================================================================
\* Part IV : the Batch Data Loader (database.Inserter)
\* ======================================================================

MaxRows  == 3     \* value rows of one INSERT statement
MaxBatch == 2     \* config.BatchSize

Tables == {"table1", "table2"}

\* The rows of statement i: <<i, 1>> .. <<i, n>>, in file order.
RowsOf(i, from, to) == {<<i, k>> : k \in from..to}

\* Lines 220-221: totalBatches := (len(stmt.Values) + batchSize - 1) / batchSize
TotalBatchesFloor(n, batchSize) == n \div batchSize
TotalBatches(n, batchSize) == (n + batchSize - 1) \div batchSize

\* Lines 224-228: the rows start+1 .. end of batch batchIdx (from 0).
BatchStart(batchIdx, batchSize) == batchIdx * batchSize
BatchEnd(batchIdx, batchSize, n) ==
  LET end == BatchStart(batchIdx, batchSize) + batchSize
  IN IF end > n THEN n ELSE end

\* ExtractTableNames: the tables in order of first appearance.
RECURSIVE ExtractTableNames(_)
ExtractTableNames(stmts) ==
  IF stmts = <<>> THEN <<>>
  ELSE LET rest == ExtractTableNames(SubSeq(stmts, 1, Len(stmts) - 1))
           t == stmts[Len(stmts)].table
       IN IF t \in Range(rest) THEN rest ELSE Append(rest, t)

\* ValidateTablesExist (lines 119-138): nil, or the error of the first table
\* of the list that does not exist.
ValidateTablesExist(tables, absent) ==
  IF \E i \in DOMAIN tables : tables[i] \in absent
  THEN LET first == CHOOSE i \in DOMAIN tables :
                      tables[i] \in absent /\ \A j \in 1..(i - 1) : tables[j] \notin absent
       IN [kind |-> "validate", tables |-> {tables[first]}]
  ELSE [kind |-> "none", tables |-> {}]

NoError == [kind |-> "none", tables |-> {}]

\* The result record of lines 34-42, and with the counters set.
EmptyResult(total) ==
  [total |-> total, successful |-> 0, failed |-> 0, totalRows |-> 0,
   tables |-> <<>>]

\* Lines 97-113: per table, the statements of the file and their rows.
RECURSIVE SumRows(_, _)
SumRows(stmts, t) ==
  IF stmts = <<>> THEN 0
  ELSE (IF Head(stmts).table = t THEN Head(stmts).n ELSE 0) + SumRows(Tail(stmts), t)

TableStats(stmts) ==
  [t \in {stmts[i].table : i \in DOMAIN stmts} |->
     [statements |-> Cardinality({i \in DOMAIN stmts : stmts[i].table = t}),
      rows |-> SumRows(stmts, t)]]

RECURSIVE SumOver(_, _)
SumOver(f, S) ==
  IF S = {} THEN 0
  ELSE LET x == CHOOSE y \in S : TRUE IN f[x].rows + SumOver(f, S \ {x})

InsertConfigs ==
  [BatchSize : 1..MaxBatch, OnConflict : {"error", "ignore"},
   StopOnError : BOOLEAN, ValidateTables : BOOLEAN, UseTransaction : BOOLEAN]

InsertFiles ==
  UNION {[1..k -> [table : Tables, n : 1..MaxRows]] : k \in 0..2}

InsertInit ==
  /\ insStatements \in InsertFiles
  /\ insConfig \in InsertConfigs
  /\ missing \in SUBSET Tables
  /\ written = {} /\ txRows = {}
  /\ insPc = "parse"
  /\ stmtIdx = 0 /\ batchIndex = 0
  /\ execCalls = <<>>
  /\ insErr = NoError
  /\ insResult = EmptyResult(0)

\* Lines 31-68: parse and validate the statements; an empty file is an error.
InsParse ==
  /\ insPc = "parse"
  /\ insResult' = EmptyResult(Len(insStatements))
  /\ IF Len(insStatements) = 0
     THEN /\ insErr' = [kind |-> "empty", tables |-> {}]
          /\ insPc' = "done"
     ELSE /\ insPc' = "validate"
          /\ UNCHANGED insErr
  /\ UNCHANGED <<insStatements, insConfig, missing, written, txRows, stmtIdx,
                 batchIndex, execCalls>>
  /\ UNCHANGED restI

\* Lines 70-80, then lines 142-156: the table check when it is configured,
\* then the connection and the transaction.
InsValidate ==
  /\ insPc = "validate"
  /\ LET check == IF insConfig.ValidateTables
                  THEN ValidateTablesExist(ExtractTableNames(insStatements), missing)
                  ELSE NoError
     IN IF check.kind # "none"
        THEN /\ insErr' = check
             /\ insPc' = "done"
             /\ UNCHANGED <<stmtIdx, batchIndex>>
        ELSE /\ insPc' = "exec"
             /\ stmtIdx' = 1 /\ batchIndex' = 0
             /\ UNCHANGED insErr
  /\ UNCHANGED <<insStatements, insConfig, missing, written, txRows,
                 execCalls, insResult>>
  /\ UNCHANGED restI

\* The batch the loader is about to execute.
CurrentBatch ==
  LET stmt == insStatements[stmtIdx]
      start == BatchStart(batchIndex, insConfig.BatchSize)
      end == BatchEnd(batchIndex, insConfig.BatchSize, stmt.n)
  IN [stmt |-> stmtIdx, table |-> stmt.table,
      rows |-> [k \in 1..(end - start) |-> start + k]]

\* Lines 222-245 and 165-188: where the two loops are after a batch that did
\* not end its statement with an error.
NextBatch ==
  IF batchIndex + 1 < TotalBatches(insStatements[stmtIdx].n, insConfig.BatchSize)
  THEN [stmt |-> stmtIdx, batch |-> batchIndex + 1]
  ELSE [stmt |-> stmtIdx + 1, batch |-> 0]

\* Lines 177-185 (and 82-90, 155): the statement returned an error.  With
\* StopOnError the load returns it and the deferred Rollback discards the
\* transaction; without, the loop goes to the next statement.
StatementFailed ==
  IF insConfig.StopOnError
  THEN /\ insErr' = [kind |-> "exec", tables |-> {}]
       /\ insResult' = [insResult EXCEPT !.failed = insResult.total]
       /\ txRows' = {}
       /\ insPc' = "done"
       /\ UNCHANGED <<stmtIdx, batchIndex>>
  ELSE /\ stmtIdx' = stmtIdx + 1 /\ batchIndex' = 0
       /\ UNCHANGED <<insErr, insResult, txRows, insPc>>

\* Lines 233-234: the batch is executed and the server accepts it.
InsBatchOk ==
  /\ insPc = "exec" /\ stmtIdx <= Len(insStatements)
  /\ CurrentBatch.table \notin missing
  /\ LET rows == {<<stmtIdx, CurrentBatch.rows[k]>> : k \in DOMAIN CurrentBatch.rows}
     IN IF insConfig.UseTransaction
        THEN txRows' = txRows \cup rows /\ UNCHANGED written
        ELSE written' = written \cup rows /\ UNCHANGED txRows
  /\ execCalls' = Append(execCalls, [stmt |-> stmtIdx, rows |-> CurrentBatch.rows,
                                      res |-> "ok"])
  /\ stmtIdx' = NextBatch.stmt /\ batchIndex' = NextBatch.batch
  /\ UNCHANGED <<insStatements, insConfig, missing, insPc, insErr, insResult>>
  /\ UNCHANGED restI

\* Line 236: a duplicate-key error is swallowed under this policy.
IgnoredAlways(onConflict) == TRUE
Ignored(onConflict) == onConflict = "ignore"

\* Lines 233-242: the server rejects the batch with a duplicate-key error (a
\* key of the batch is taken); the batch writes nothing.
InsBatchDuplicate ==
  /\ insPc = "exec" /\ stmtIdx <= Len(insStatements)
  /\ CurrentBatch.table \notin missing
  /\ execCalls' = Append(execCalls, [stmt |-> stmtIdx, rows |-> CurrentBatch.rows,
                                      res |-> "duplicate"])
  /\ IF Ignored(insConfig.OnConflict)
     THEN /\ stmtIdx' = NextBatch.stmt /\ batchIndex' = NextBatch.batch
          /\ UNCHANGED <<insErr, insResult, txRows, insPc>>
     ELSE StatementFailed
  /\ UNCHANGED <<insStatements, insConfig, missing, written>>
  /\ UNCHANGED restI

\* Lines 233-242: the server rejects the batch because the table is not
\* there (possible when the table check is off).
InsBatchNoTable ==
  /\ insPc = "exec" /\ stmtIdx <= Len(insStatements)
  /\ CurrentBatch.table \in missing
  /\ execCalls' = Append(execCalls, [stmt |-> stmtIdx, rows |-> CurrentBatch.rows,
                                      res |-> "error"])
  /\ StatementFailed
  /\ UNCHANGED <<insStatements, insConfig, missing, written>>
  /\ UNCHANGED restI

\* Lines 190-203: after the last statement, the commit.
InsCommit ==
  /\ insPc = "exec" /\ stmtIdx > Len(insStatements)
  /\ written' = written \cup txRows
  /\ txRows' = {}
  /\ insPc' = "summary"
  /\ UNCHANGED <<insStatements, insConfig, missing, stmtIdx, batchIndex,
                 execCalls, insErr, insResult>>
  /\ UNCHANGED restI

\* Lines 92-113: the result summary.
InsSummary ==
  /\ insPc = "summary"
  /\ LET stats == TableStats(insStatements)
     IN insResult' = [insResult EXCEPT !.successful = insResult.total,
                                       !.tables = stats,
                                       !.totalRows = SumOver(stats, DOMAIN stats)]
  /\ insPc' = "done"
  /\ UNCHANGED <<insStatements, insConfig, missing, written, txRows, stmtIdx,
                 batchIndex, execCalls, insErr>>
  /\ UNCHANGED restI

InsertNext ==
  \/ InsParse \/ InsValidate \/ InsBatchOk \/ InsBatchDuplicate
  \/ InsBatchNoTable \/ InsCommit \/ InsSummary

InitInsert == MOff /\ ResolverOff /\ OrchOff /\ ApplyOff /\ CopyOff /\ ParserOff /\ CreatorOff /\ ManagerOff /\ SetupOff
  /\ InsertInit

SpecInsert == InitInsert /\ [][InsertNext]_vars

\* ----------------------------------------------------------------------
\* Properties of the loader (checked under SpecInsert).
\* ----------------------------------------------------------------------

\* The execute calls issued for statement i, in order.
CallsOf(i) == SelectSeq(execCalls, LAMBDA c : c.stmt = i)

\* The loader is past statement i and no batch of it returned an error to
\* ExecuteInsertStatements.
Executed(i) ==
  /\ insPc \in {"exec", "summary", "done"}
  /\ i < stmtIdx
  /\ \A c \in Range(CallsOf(i)) :
       c.res = "ok" \/ (c.res = "duplicate" /\ insConfig.OnConflict = "ignore")

\* ceil(r / b) for r >= 1, b >= 1.
Ceil(r, b) == CHOOSE c \in 1..r : c * b >= r /\ (c - 1) * b < r

RECURSIVE SumLen(_)
SumLen(calls) ==
  IF calls = <<>> THEN 0 ELSE Len(Head(calls).rows) + SumLen(Tail(calls))

\* C14: a statement of R rows executed with batch size B is sent in exactly
\* ceil(R/B) execute calls; the k-th call carries the next min(B, rows
\* remaining) rows in file order; the sizes add up to R.
C14_BatchPlan ==
  \A i \in DOMAIN insStatements :
    Executed(i) =>
      LET R == insStatements[i].n
          B == insConfig.BatchSize
          calls == CallsOf(i)
      IN /\ Len(calls) = Ceil(R, B)
         /\ \A k \in DOMAIN calls :
              /\ Len(calls[k].rows) = Min(B, R - (k - 1) * B)
              /\ \A j \in DOMAIN calls[k].rows : calls[k].rows[j] = (k - 1) * B + j
         /\ SumLen(calls) = R

\* Three rows with batch size two: a full batch and a batch of one.
C14_Witness ==
  /\ insPc = "done" /\ insErr.kind = "none"
  /\ insConfig.BatchSize = 2
  /\ insStatements[1].n = 3
  /\ Executed(1)
  /\ Len(CallsOf(1)) = 2
  /\ Len(CallsOf(1)[2].rows) = 1

\* A batch was rejected as a duplicate under policy "error".
DuplicateFailure ==
  /\ insConfig.OnConflict = "error"
  /\ \E k \in DOMAIN execCalls : execCalls[k].res = "duplicate"

\* Every batch rejected as a duplicate wrote nothing, and the call after it
\* is the next batch of the file.
SkippedAndContinued ==
  \A k \in DOMAIN execCalls :
    execCalls[k].res = "duplicate" =>
      LET c == execCalls[k]
          n == insStatements[c.stmt].n
          last == c.rows[Len(c.rows)]
      IN /\ \A j \in DOMAIN c.rows : <<c.stmt, c.rows[j]>> \notin (written \cup txRows)
         /\ k < Len(execCalls) =>
              IF last < n
              THEN execCalls[k + 1].stmt = c.stmt /\ execCalls[k + 1].rows[1] = last + 1
              ELSE execCalls[k + 1].stmt = c.stmt + 1 /\ execCalls[k + 1].rows[1] = 1
         /\ (k = Len(execCalls) /\ insPc = "done") =>
              (insErr.kind = "none" /\ last = n /\ c.stmt = Len(insStatements))

\* C15 (as stated): under policy "error" a duplicate-key failure aborts the
\* load at once and nothing of the file is in the target afterwards; under
\* policy "ignore" only the failing batch is skipped and the load goes on
\* with the next batch.
C15_DuplicateAbortsOrSkips ==
  /\ DuplicateFailure =>
       /\ insPc = "done" /\ insErr.kind = "exec"
       /\ execCalls[Len(execCalls)].res = "duplicate"
       /\ written = {} /\ txRows = {}
  /\ insConfig.OnConflict = "ignore" => SkippedAndContinued

\* C15 (amended): the abort needs StopOnError, and the rollback needs
\* UseTransaction as well.
C15_AbortNeedsStopOnError ==
  /\ (DuplicateFailure /\ insConfig.StopOnError) =>
       /\ insPc = "done" /\ insErr.kind = "exec"
       /\ execCalls[Len(execCalls)].res = "duplicate"
       /\ txRows = {}
       /\ insConfig.UseTransaction => written = {}
  /\ insConfig.OnConflict = "ignore" => SkippedAndContinued

\* A batch is accepted, the next one is a duplicate, and the rows of the
\* first are gone with the transaction.
C15_Witness ==
  /\ DuplicateFailure /\ insConfig.StopOnError /\ insConfig.UseTransaction
  /\ insPc = "done"
  /\ Len(execCalls) >= 2
  /\ execCalls[1].res = "ok"
  /\ written = {}

\* The tables the file inserts into that the target does not have.
MissingReferenced == {insStatements[i].table : i \in DOMAIN insStatements} \cap missing

\* C16: with the table check on and referenced tables missing, the load
\* fails before any INSERT is executed, and its error lists every missing
\* table.
C16_AllMissingTablesListed ==
  (insPc = "done" /\ insConfig.ValidateTables /\ MissingReferenced # {}) =>
    /\ insErr.kind = "validate"
    /\ execCalls = <<>> /\ written = {}
    /\ insErr.tables = MissingReferenced

\* ----------------------------------------------------------------------
\* The example load (Specification: SpecInsertExample): one INSERT of three
\* rows into table1 and one of five rows into table2, batch size 2, conflict
\* policy "ignore"; the other settings and the target are free.
\* ----------------------------------------------------------------------

ExampleInit ==
  /\ insStatements = << [table |-> "table1", n |-> 3], [table |-> "table2", n |-> 5] >>
  /\ insConfig \in [BatchSize : {2}, OnConflict : {"ignore"}, StopOnError : BOOLEAN,
                    ValidateTables : BOOLEAN, UseTransaction : BOOLEAN]
  /\ missing \in SUBSET Tables
  /\ written = {} /\ txRows = {}
  /\ insPc = "parse"
  /\ stmtIdx = 0 /\ batchIndex = 0
  /\ execCalls = <<>>
  /\ insErr = NoError
  /\ insResult = EmptyResult(0)

InitInsertExample == MOff /\ ResolverOff /\ OrchOff /\ ApplyOff /\ CopyOff /\ ParserOff /\ CreatorOff /\ ManagerOff /\ SetupOff
  /\ ExampleInit

SpecInsertExample == InitInsertExample /\ [][InsertNext]_vars

\* C17: the example load, when it succeeds, reports 3 rows and 2 statements
\* for table1 and 5 rows and 3 statements for table2: one statement counted
\* for each executed batch.
C17_ExampleSummary ==
  (insPc = "done" /\ insErr.kind = "none") =>
    /\ insResult.tables["table1"] = [statements |-> 2, rows |-> 3]
    /\ insResult.tables["table2"] = [statements |-> 3, rows |-> 5]

\* The rows of table t the load has written to the target.
WrittenTo(t) == {w \in written : insStatements[w[1]].table = t}

\* C30: in the result of a load that returns without error, the number of
\* inserted rows reported for each table, and the total, are not greater
\* than the number of rows written: rows of batches skipped as duplicates
\* and of statements that failed with StopOnError off are not counted.
C30_CountsWithinWritten ==
  (insPc = "done" /\ insErr.kind = "none") =>
    /\ insResult.totalRows <= Cardinality(written)
    /\ \A t \in DOMAIN insResult.tables :
         insResult.tables[t].rows <= Cardinality(WrittenTo(t))

\* ======================================================================
\* Part V : the Cross-Database Copier (datacopy)
\* ======================================================================

MaxCopyTargets == 2    \* databases named in one CopyToMultipleDatabases

CopyDBs == {"shop_a", "shop_b"}

\* NewDataCopier (lines 64-80): an empty OnError becomes "stop".
NewDataCopierOnError(o) == IF o = "" THEN "stop" ELSE o

\* Lines 105-113: what CopyData does after a table failed: "return" for
\* "stop" and "rollback", "continue" for "continue"; any other value leaves
\* the switch and the loop goes on.
AfterTableError(o) ==
  CASE o = "stop" -> "return"
    [] o = "rollback" -> "return"
    [] o = "continue" -> "continue"
    [] OTHER -> "continue"

\* Lines 461-465: where the loop over targetDBs goes after a failed target.
AfterTargetError(i, n, o) == i + 1

CopyInit ==
  /\ targetDBs \in UNION {[1..n -> CopyDBs] : n \in 0..MaxCopyTargets}
  /\ copyTables \in {<<"products">>, <<"products", "prices">>}
  /\ onError \in {"", "stop", "continue", "rollback"}
  /\ copyPc = "copy"
  /\ targetIdx = 1 /\ tableIdx = 1
  /\ tableErrors = <<>> /\ copyErrors = <<>>
  /\ copied = {} /\ copyAttempts = <<>>
  /\ copyResult = "none"

\* CopyBetweenDatabases returned err (which may be nil) for the current
\* target: lines 461-465, and the start of the next iteration.
TargetDone(failed) ==
  LET db == targetDBs[targetIdx]
  IN /\ copyAttempts' = Append(copyAttempts, [db |-> db, ok |-> ~failed])
     /\ copyErrors' = IF failed THEN Append(copyErrors, db) ELSE copyErrors
     /\ targetIdx' = IF failed
                     THEN AfterTargetError(targetIdx, Len(targetDBs), onError)
                     ELSE targetIdx + 1
     /\ tableIdx' = 1
     /\ tableErrors' = <<>>

\* Lines 436-446: a connection cannot be made.
CopyConnectFails ==
  /\ copyPc = "copy" /\ targetIdx <= Len(targetDBs)
  /\ tableIdx = 1 /\ tableErrors = <<>>
  /\ TargetDone(TRUE)
  /\ UNCHANGED <<targetDBs, copyTables, onError, copyPc, copied, copyResult>>
  /\ UNCHANGED restC

\* Lines 96-97, 116-122: copyTable succeeds; after the last table CopyData
\* returns nil, or the collected errors.
CopyTableOk ==
  /\ copyPc = "copy" /\ targetIdx <= Len(targetDBs)
  /\ copied' = copied \cup {<<targetDBs[targetIdx], copyTables[tableIdx]>>}
  /\ IF tableIdx < Len(copyTables)
     THEN /\ tableIdx' = tableIdx + 1
          /\ UNCHANGED <<targetIdx, tableErrors, copyErrors, copyAttempts>>
     ELSE TargetDone(Len(tableErrors) > 0)
  /\ UNCHANGED <<targetDBs, copyTables, onError, copyPc, copyResult>>
  /\ UNCHANGED restC

\* Lines 96-114: copyTable fails.
CopyTableFails ==
  /\ copyPc = "copy" /\ targetIdx <= Len(targetDBs)
  /\ IF AfterTableError(NewDataCopierOnError(onError)) = "continue"
        /\ tableIdx < Len(copyTables)
     THEN /\ tableErrors' = Append(tableErrors, copyTables[tableIdx])
          /\ tableIdx' = tableIdx + 1
          /\ UNCHANGED <<targetIdx, copyErrors, copyAttempts>>
     ELSE TargetDone(TRUE)
  /\ UNCHANGED <<targetDBs, copyTables, onError, copyPc, copied, copyResult>>
  /\ UNCHANGED restC

\* Lines 467-471: the loop over targetDBs is over.
CopyReturn ==
  /\ copyPc = "copy" /\ targetIdx > Len(targetDBs)
  /\ copyResult' = IF Len(copyErrors) > 0
                   THEN [err |-> "partial", names |-> copyErrors]
                   ELSE [err |-> "nil", names |-> <<>>]
  /\ copyPc' = "done"
  /\ UNCHANGED <<targetDBs, copyTables, onError, targetIdx, tableIdx,
                 tableErrors, copyErrors, copied, copyAttempts>>
  /\ UNCHANGED restC

CopyNext == CopyConnectFails \/ CopyTableOk \/ CopyTableFails \/ CopyReturn

InitCopy == MOff /\ ResolverOff /\ OrchOff /\ ApplyOff /\ InsertOff /\ ParserOff /\ CreatorOff /\ ManagerOff /\ SetupOff
  /\ CopyInit

SpecCopy == InitCopy /\ [][CopyNext]_vars

\* ----------------------------------------------------------------------
\* Properties of the copier (checked under SpecCopy).
\* ----------------------------------------------------------------------

\* C18: when the copy to one target fails, policy "stop" ends the operation
\* and no later target is attempted; policy "continue" attempts every target
\* and the error returned names every target that failed.
C18_StopOrContinue ==
  copyPc = "done" =>
    /\ onError = "stop" =>
         \A i \in DOMAIN copyAttempts : ~copyAttempts[i].ok => i = Len(copyAttempts)
    /\ onError = "continue" =>
         /\ Len(copyAttempts) = Len(targetDBs)
         /\ \A i \in DOMAIN copyAttempts : copyAttempts[i].db = targetDBs[i]
         /\ Range(copyResult.names) =
              {copyAttempts[i].db : i \in {k \in DOMAIN copyAttempts : ~copyAttempts[k].ok}}

\* ======================================================================
\* Part VI : the Script Parser (sqlparser.Parser.ParseFile)
\* ======================================================================

MaxLines   == 2     \* lines of a script
MaxLineLen == 3     \* characters of a line

\* The characters scripts are written with.  "C" stands for the words that
\* open a CREATE statement parseStatement can classify; the others are
\* themselves.
Chars == {"C", ";", "'", "/", "*"}

\* The arguments of the DELIMITER directives of a script.
DelimiterArgs == {<<";">>, <<"/", "/">>}

\* A line is text, or a DELIMITER directive with its argument.
TextLines == UNION {[1..n -> Chars] : n \in 0..MaxLineLen}
Lines ==
  {[directive |-> FALSE, text |-> t] : t \in TextLines}
    \cup {[directive |-> TRUE, text |-> d] : d \in DelimiterArgs}

\* strings.TrimSpace, HasPrefix, HasSuffix, TrimSuffix on character sequences.
RECURSIVE TrimLeft(_)
TrimLeft(s) == IF s # <<>> /\ Head(s) = " " THEN TrimLeft(Tail(s)) ELSE s
RECURSIVE TrimRight(_)
TrimRight(s) ==
  IF s # <<>> /\ s[Len(s)] = " " THEN TrimRight(SubSeq(s, 1, Len(s) - 1)) ELSE s
TrimSpace(s) == TrimRight(TrimLeft(s))
HasPrefix(s, p) == Len(p) <= Len(s) /\ SubSeq(s, 1, Len(p)) = p
HasSuffix(s, p) == Len(p) <= Len(s) /\ SubSeq(s, Len(s) - Len(p) + 1, Len(s)) = p
TrimSuffix(s, p) == IF HasSuffix(s, p) THEN SubSeq(s, 1, Len(s) - Len(p)) ELSE s

\* Line 113: the runes that open a string; "bq" stands for the backquote.
QuoteChars == {"'", "\"", "bq"}

\* processLine (lines 89-136), rune i of the line onwards.  st holds the
\* result builder and the three flags.  The loop is `for i, r := range runes`:
\* the i++ of lines 98 and 128 changes the copy of i of this iteration only,
\* the next iteration takes the next rune all the same.
RECURSIVE ProcessRunes(_, _, _)
ProcessRunes(runes, i, st) ==
  IF i > Len(runes) THEN st
  ELSE
    LET r == runes[i]
        nextIs(c) == i + 1 <= Len(runes) /\ runes[i + 1] = c
    IN IF st.inMultiLineComment
       THEN ProcessRunes(runes, i + 1,
              IF r = "*" /\ nextIs("/")
              THEN [st EXCEPT !.inMultiLineComment = FALSE] ELSE st)
       ELSE IF st.inString
       THEN ProcessRunes(runes, i + 1,
              [st EXCEPT !.out = Append(@, r),
                         !.inString = ~(r = st.stringChar
                                        /\ (i = 1 \/ runes[i - 1] # "\\"))])
       ELSE IF r \in QuoteChars
       THEN ProcessRunes(runes, i + 1,
              [st EXCEPT !.out = Append(@, r), !.inString = TRUE, !.stringChar = r])
       ELSE IF r = "-" /\ nextIs("-")
       THEN st
       ELSE IF r = "/" /\ nextIs("*")
       THEN ProcessRunes(runes, i + 1, [st EXCEPT !.inMultiLineComment = TRUE])
       ELSE ProcessRunes(runes, i + 1, [st EXCEPT !.out = Append(@, r)])

processLine(line, mlc, str, ch) ==
  LET st == ProcessRunes(line, 1, [out |-> <<>>, inMultiLineComment |-> mlc,
                                   inString |-> str, stringChar |-> ch])
  IN [st EXCEPT !.out = TrimSpace(@)]

\* isStatementEnd (lines 139-144).
isStatementEnd(line, str, delim) ==
  IF str THEN FALSE ELSE HasSuffix(TrimSpace(line), delim)

\* parseStatement (lines 147-196): the statements appended for one statement
\* text: one for a CREATE statement, none for anything else.
parseStatement(statement) ==
  IF HasPrefix(TrimSpace(statement), <<"C">>)
  THEN << [type |-> "CREATE", text |-> TrimSpace(statement)] >>
  ELSE <<>>

\* NewParser (lines 20-24), and a script to parse.
ParserInit ==
  /\ script \in UNION {[1..n -> Lines] : n \in 0..MaxLines}
  /\ delimiter = <<";">>
  /\ parsePc = "start"
  /\ parseRun = 1
  /\ lineNumber = 0
  /\ currentStatement = <<>>
  /\ inMultiLineComment = FALSE /\ inString = FALSE /\ stringChar = ""
  /\ parsed = <<>>
  /\ ends = 0
  /\ firstParse = <<>>

\* Lines 28-41: a call of ParseFile starts; its locals are fresh, the
\* Parser's delimiter is what the Parser holds.
ParseStart ==
  /\ parsePc = "start"
  /\ lineNumber' = 0
  /\ currentStatement' = <<>>
  /\ inMultiLineComment' = FALSE /\ inString' = FALSE /\ stringChar' = ""
  /\ parsed' = <<>>
  /\ ends' = 0
  /\ parsePc' = "scan"
  /\ UNCHANGED <<script, delimiter, parseRun, firstParse>>
  /\ UNCHANGED restP

\* Lines 43-50: the next line is a DELIMITER directive.
ParseDirective ==
  /\ parsePc = "scan" /\ lineNumber < Len(script)
  /\ script[lineNumber + 1].directive
  /\ delimiter' = TrimSpace(script[lineNumber + 1].text)
  /\ lineNumber' = lineNumber + 1
  /\ UNCHANGED <<script, parsePc, parseRun, currentStatement, inMultiLineComment,
                 inString, stringChar, parsed, ends, firstParse>>
  /\ UNCHANGED restP

\* Lines 43-45 and 52-77: the next line is text.
ParseLine ==
  /\ parsePc = "scan" /\ lineNumber < Len(script)
  /\ ~script[lineNumber + 1].directive
  /\ LET st == processLine(script[lineNumber + 1].text, inMultiLineComment,
                           inString, stringChar)
         processedLine == st.out
         cur == currentStatement \o processedLine \o <<" ">>
     IN /\ inMultiLineComment' = st.inMultiLineComment
        /\ inString' = st.inString
        /\ stringChar' = st.stringChar
        /\ IF processedLine = <<>>
           THEN UNCHANGED <<currentStatement, parsed, ends>>
           ELSE IF isStatementEnd(processedLine, st.inString, delimiter)
           THEN LET statementText ==
                      TrimSpace(TrimSuffix(TrimSpace(cur), delimiter))
                IN /\ parsed' = IF statementText # <<>>
                                THEN parsed \o parseStatement(statementText)
                                ELSE parsed
                   /\ currentStatement' = <<>>
                   /\ ends' = ends + 1
           ELSE /\ currentStatement' = cur
                /\ UNCHANGED <<parsed, ends>>
  /\ lineNumber' = lineNumber + 1
  /\ UNCHANGED <<script, delimiter, parsePc, parseRun, firstParse>>
  /\ UNCHANGED restP

\* Lines 80-85: the scanner is at the end of the file; ParseFile returns the
\* statements.  The caller (Creator.CreateFromSQLFile, then ExecuteSQLFile)
\* parses the file a second time with the same Parser.
ParseReturn ==
  /\ parsePc = "scan" /\ lineNumber = Len(script)
  /\ IF parseRun = 1
     THEN /\ firstParse' = parsed
          /\ parseRun' = 2
          /\ parsePc' = "start"
     ELSE /\ parsePc' = "done"
          /\ UNCHANGED <<firstParse, parseRun>>
  /\ UNCHANGED <<script, delimiter, lineNumber, currentStatement,
                 inMultiLineComment, inString, stringChar, parsed, ends>>
  /\ UNCHANGED restP

ParserNext == ParseStart \/ ParseDirective \/ ParseLine \/ ParseReturn

InitParser == MOff /\ ResolverOff /\ OrchOff /\ ApplyOff /\ InsertOff /\ CopyOff /\ CreatorOff /\ ManagerOff /\ SetupOff
  /\ ParserInit

SpecParser == InitParser /\ [][ParserNext]_vars

\* ----------------------------------------------------------------------
\* Properties of the parser (checked under SpecParser).
\* ----------------------------------------------------------------------

\* C19: the second parse of a script returns the statement list the first
\* parse returned, the same statements in the same order, whatever DELIMITER
\* directives the script contains.
C19_ParseTwiceSame ==
  parsePc = "done" => parsed = firstParse

\* The occurrences of ";" in a script that lie outside every quoted string
\* and every comment, counted by reading the script character by character.
RECURSIVE RefLine(_, _, _)
RefLine(line, i, acc) ==
  IF i > Len(line) THEN acc
  ELSE
    LET c == line[i]
        nextIs(x) == i + 1 <= Len(line) /\ line[i + 1] = x
    IN CASE acc.mode = "comment" ->
              IF c = "*" /\ nextIs("/")
              THEN RefLine(line, i + 2, [acc EXCEPT !.mode = "code"])
              ELSE RefLine(line, i + 1, acc)
         [] acc.mode = "string" ->
              RefLine(line, i + 1, IF c = "'" THEN [acc EXCEPT !.mode = "code"] ELSE acc)
         [] OTHER ->
              IF c = "'" THEN RefLine(line, i + 1, [acc EXCEPT !.mode = "string"])
              ELSE IF c = "/" /\ nextIs("*")
              THEN RefLine(line, i + 2, [acc EXCEPT !.mode = "comment"])
              ELSE IF c = ";" THEN RefLine(line, i + 1, [acc EXCEPT !.count = @ + 1])
              ELSE RefLine(line, i + 1, acc)

RECURSIVE RefScript(_, _, _)
RefScript(lines, k, acc) ==
  IF k > Len(lines) THEN acc
  ELSE RefScript(lines, k + 1, RefLine(lines[k].text, 1, acc))

DelimitersOutside(lines) == RefScript(lines, 1, [mode |-> "code", count |-> 0]).count

NoDirectives(lines) == \A k \in DOMAIN lines : ~lines[k].directive

\* C20: in a script without DELIMITER directives (the delimiter is ";"
\* throughout), the parser has ended a statement once for every ";" outside
\* strings and comments, wherever on its line, and for no other.
C20_EndsAtEveryDelimiter ==
  (parseRun = 1 /\ parsePc = "scan" /\ lineNumber = Len(script) /\ NoDirectives(script))
    => ends = DelimitersOutside(script)

\* The text of a script outside its /* ... */ spans, read character by
\* character: "/*" opens a span, the next "*/" closes it, both belong to it.
RECURSIVE KeptOfLine(_, _, _)
KeptOfLine(line, i, acc) ==
  IF i > Len(line) THEN acc
  ELSE
    LET c == line[i]
        nextIs(x) == i + 1 <= Len(line) /\ line[i + 1] = x
    IN IF acc.inComment
       THEN IF c = "*" /\ nextIs("/")
            THEN KeptOfLine(line, i + 2, [acc EXCEPT !.inComment = FALSE])
            ELSE KeptOfLine(line, i + 1, acc)
       ELSE IF c = "/" /\ nextIs("*")
            THEN KeptOfLine(line, i + 2, [acc EXCEPT !.inComment = TRUE])
            ELSE KeptOfLine(line, i + 1, [acc EXCEPT !.out = Append(@, c)])

\* What ParseFile has collected of such a script when no statement has ended:
\* the kept text of every line that has any, each followed by one space.
RECURSIVE KeptOfScript(_, _, _)
KeptOfScript(lines, k, acc) ==
  IF k > Len(lines) THEN acc
  ELSE LET ln == KeptOfLine(lines[k].text, 1, [acc EXCEPT !.out = <<>>])
           kept == TrimSpace(ln.out)
       IN KeptOfScript(lines, k + 1,
            [inComment |-> ln.inComment,
             out |-> <<>>,
             all |-> IF kept = <<>> THEN acc.all ELSE acc.all \o kept \o <<" ">>])

KeptText(lines) ==
  KeptOfScript(lines, 1, [inComment |-> FALSE, out |-> <<>>, all |-> <<>>])

\* A script of words and block comments only: no directive, no quote, no
\* delimiter, and every comment it opens it closes.
CommentedWords(lines) ==
  /\ NoDirectives(lines)
  /\ \A k \in DOMAIN lines : Range(lines[k].text) \subseteq {"C", "/", "*"}
  /\ ~KeptText(lines).inComment

\* C21: every character inside a matched /* ... */ span, also one that
\* crosses lines, is removed from the statement text, and every character
\* outside comments, the text after the closing */ included, is kept.
C21_CommentSpansRemoved ==
  ( /\ parseRun = 1 /\ parsePc = "scan" /\ lineNumber = Len(script)
    /\ CommentedWords(script) )
    => currentStatement = KeptText(script).all

\* A statement is still open when ParseFile reaches the end of the file:
\* text has been collected that no delimiter has ended, or a quoted string
\* or a block comment has not been closed.
OpenAtEnd ==
  currentStatement # <<>> \/ inString \/ inMultiLineComment

\* C22: a script that ends while a statement is still open makes parsing
\* fail; ParseFile never returns its statement list (parsePc = "done" is the
\* return of lines 84-85, `return statements, nil`) with a statement open.
C22_OpenStatementIsAnError ==
  parsePc = "done" => ~OpenAtEnd

\* ======================================================================
\* Part VII : the Database Creator (database.Creator.CreateFromSQLFile)
\* ======================================================================

MaxDDL == 2     \* statements of a script handed to the creator

\* The statements of a script as ParseFile meets them: a CREATE statement
\* with its name and dependencies, or a CREATE statement whose name cannot
\* be extracted, for which parseStatement returns an error.
Malformed == [type |-> "MALFORMED", name |-> "", deps |-> <<>>]
DDLUniverse ==
  [type : Types, name : {"orders", "order_items"},
   deps : {<<>>, <<"orders">>, <<"order_items">>}] \cup {Malformed}

\* Parser.ParseFile on such a script (lines 67-75): the error of the first
\* statement parseStatement refuses, or the list.
ParseFile(file) ==
  IF \E i \in DOMAIN file : file[i] = Malformed
  THEN [err |-> TRUE, statements |-> <<>>]
  ELSE [err |-> FALSE, statements |-> file]

\* Parser.ValidateStatements (lines 368-380): TRUE when it returns an error,
\* which is when a (type, name) pair occurs twice.
ValidateStatements(stmts) ==
  \E i, j \in DOMAIN stmts :
    i < j /\ stmts[i].type = stmts[j].type /\ stmts[i].name = stmts[j].name

\* The loop of SortByDependencies (lines 418-431) run to its end: the number
\* of nodes it has processed.
RECURSIVE Drain(_, _, _, _)
Drain(g, deg, q, n) ==
  IF q = <<>> THEN n
  ELSE LET nxt == Relax(g[Head(q)], deg, Tail(q))
       IN Drain(g, nxt.deg, nxt.queue, n + 1)

\* SortByDependencies returns the cycle error (line 433).  The count does
\* not depend on the order in which the map is ranged over.
SortFails(stmts) ==
  LET deg == BuildInDegree(stmts)
      seed == CHOOSE q \in Perms({n \in DOMAIN deg : deg[n] = 0}) : TRUE
  IN CycleDetected(Drain(BuildGraph(stmts), deg, seed, 0), Len(stmts))

\* A call of CreateFromSQLFile: the script, config.IfExists, and whether the
\* database is there already.
CreatorInit ==
  /\ crInput \in [file : UNION {[1..n -> DDLUniverse] : n \in 0..MaxDDL},
                  ifExists : {"error", "skip"}]
  /\ dbExists \in BOOLEAN
  /\ crPc = "create"
  /\ dbCreated = FALSE
  /\ ddlExecuted = 0
  /\ crErr = "none"

\* CreateFromSQLFile step 1 (lines 528-535) with CreateDatabase (lines
\* 304-345): the existence check, the IfExists switch, CREATE DATABASE.
CrCreateDatabase ==
  /\ crPc = "create"
  /\ \E fails \in BOOLEAN :
       IF fails \/ (dbExists /\ crInput.ifExists # "skip")
       THEN /\ crErr' = "createErr"
            /\ crPc' = "done"
            /\ UNCHANGED <<dbExists, dbCreated>>
       ELSE /\ dbExists' = TRUE
            /\ dbCreated' = ~dbExists
            /\ crPc' = "parse"
            /\ UNCHANGED crErr
  /\ UNCHANGED <<crInput, ddlExecuted>>
  /\ UNCHANGED restK

\* CreateFromSQLFile step 2 (lines 537-549): ParseFile, and the return for
\* a script without statements.
CrParse ==
  /\ crPc = "parse"
  /\ LET res == ParseFile(crInput.file)
     IN IF res.err
        THEN crErr' = "parseErr" /\ crPc' = "done"
        ELSE IF Len(res.statements) = 0
        THEN crPc' = "done" /\ UNCHANGED crErr
        ELSE crPc' = "prepare" /\ UNCHANGED crErr
  /\ UNCHANGED <<crInput, dbExists, dbCreated, ddlExecuted>>
  /\ UNCHANGED restK

\* ExecuteSQLFile up to its loop (lines 384-418): parse again, validate,
\* sort, connect, begin.
CrPrepare ==
  /\ crPc = "prepare"
  /\ LET res == ParseFile(crInput.file)
     IN \E connects \in BOOLEAN :
          IF res.err
          THEN crErr' = "parseErr" /\ crPc' = "done"
          ELSE IF Len(res.statements) = 0
          THEN crPc' = "done" /\ UNCHANGED crErr
          ELSE IF ValidateStatements(res.statements)
          THEN crErr' = "validateErr" /\ crPc' = "done"
          ELSE IF SortFails(res.statements)
          THEN crErr' = "cycleErr" /\ crPc' = "done"
          ELSE IF ~connects
          THEN crErr' = "connectErr" /\ crPc' = "done"
          ELSE crPc' = "loop" /\ UNCHANGED crErr
  /\ UNCHANGED <<crInput, dbExists, dbCreated, ddlExecuted>>
  /\ UNCHANGED restK

\* ExecuteSQLFile, lines 426-441: one statement of the sorted list.
CrExec ==
  /\ crPc = "loop"
  /\ ddlExecuted < Len(crInput.file)
  /\ \E fails \in BOOLEAN :
       IF fails
       THEN crErr' = "execErr" /\ crPc' = "done" /\ UNCHANGED ddlExecuted
       ELSE ddlExecuted' = ddlExecuted + 1 /\ UNCHANGED <<crErr, crPc>>
  /\ UNCHANGED <<crInput, dbExists, dbCreated>>
  /\ UNCHANGED restK

\* ExecuteSQLFile, lines 443-446, and the return of CreateFromSQLFile.
CrCommit ==
  /\ crPc = "loop"
  /\ ddlExecuted = Len(crInput.file)
  /\ \E fails \in BOOLEAN : crErr' = IF fails THEN "commitErr" ELSE "none"
  /\ crPc' = "done"
  /\ UNCHANGED <<crInput, dbExists, dbCreated, ddlExecuted>>
  /\ UNCHANGED restK

CreatorNext == CrCreateDatabase \/ CrParse \/ CrPrepare \/ CrExec \/ CrCommit

InitCreator == MOff /\ ResolverOff /\ OrchOff /\ ApplyOff /\ InsertOff /\ CopyOff /\ ManagerOff /\ SetupOff
  /\ ParserOff /\ CreatorInit

SpecCreator == InitCreator /\ [][CreatorNext]_vars

\* ----------------------------------------------------------------------
\* Properties of the creator (checked under SpecCreator).
\* ----------------------------------------------------------------------

\* C23: when CreateFromSQLFile returns a parse error or the cycle error, no
\* statement of the script has been executed and the call has not created
\* the target database.
C23_NothingDoneBeforeParseOrCycleError ==
  (crPc = "done" /\ crErr \in {"parseErr", "cycleErr"})
    => (ddlExecuted = 0 /\ ~dbCreated)

\* The half of C23 about the statements of the script.
C23_NoDDLBeforeParseOrCycleError ==
  (crPc = "done" /\ crErr \in {"parseErr", "cycleErr"}) => ddlExecuted = 0

\* ======================================================================
\* Part VIII : the Database Manager (database.Manager, resolveDatabases)
\* ======================================================================

MaxNameLen    == 2     \* characters of a database name or of a pattern
MaxConfigured == 2     \* entries of config.Databases

\* Database names are written with the characters MySQL allows in an
\* unquoted identifier; "a" stands for the letters, digits and "_".
NameChars    == {"a", "$"}
PatternChars == NameChars \cup {"*", "?"}
DbNames  == UNION {[1..n -> NameChars] : n \in 1..MaxNameLen}
Patterns == UNION {[1..n -> PatternChars] : n \in 1..MaxNameLen}

\* The keys of config.Databases, the name of the base configuration, and a
\* system schema the server lists.
ConfigKeys   == {<<"a">>, <<"k">>}
BaseDatabase == <<"a">>
SystemDb     == <<"s", "y", "s">>

\* strings.Contains and strings.ReplaceAll for a one-character old string.
Contains(s, c) == \E i \in DOMAIN s : s[i] = c
RECURSIVE ReplaceAll(_, _, _)
ReplaceAll(s, c, new) ==
  IF s = <<>> THEN <<>>
  ELSE (IF Head(s) = c THEN new ELSE <<Head(s)>>) \o ReplaceAll(Tail(s), c, new)

\* regexp.MatchString for the expressions matchPattern builds: "^" and "$"
\* assert the start and the end of the text, "." is any character, ".*" any
\* run of characters, every other character is itself.  MatchAt: the
\* expression from position i on matches the text from position j on.
RECURSIVE MatchAt(_, _, _, _)
MatchAt(re, i, s, j) ==
  IF i > Len(re) THEN TRUE
  ELSE
    CASE re[i] = "^" -> j = 1 /\ MatchAt(re, i + 1, s, j)
      [] re[i] = "$" -> j = Len(s) + 1 /\ MatchAt(re, i + 1, s, j)
      [] re[i] = "." ->
           IF i + 1 <= Len(re) /\ re[i + 1] = "*"
           THEN \E k \in j..(Len(s) + 1) : MatchAt(re, i + 2, s, k)
           ELSE j <= Len(s) /\ MatchAt(re, i + 1, s, j + 1)
      [] OTHER -> j <= Len(s) /\ s[j] = re[i] /\ MatchAt(re, i + 1, s, j + 1)
MatchString(re, s) == \E j \in 1..(Len(s) + 1) : MatchAt(re, 1, s, j)

\* matchPattern (lines 188-205).
matchPattern(dbName, pattern) ==
  IF Contains(pattern, "*") \/ Contains(pattern, "?")
  THEN LET r1 == ReplaceAll(pattern, "*", <<".", "*">>)
           r2 == ReplaceAll(r1, "?", <<".">>)
       IN MatchString(<<"^">> \o r2 \o <<"$">>, dbName)
  ELSE dbName = pattern

\* matchesPatterns (lines 174-185).
matchesPatterns(dbName, patterns) ==
  IF Len(patterns) = 0 THEN TRUE
  ELSE \E i \in DOMAIN patterns : matchPattern(dbName, patterns[i])

\* isDatabaseInList (lines 208-215), isSystemDatabase (lines 252-260).
isDatabaseInList(dbName, dbs) == \E i \in DOMAIN dbs : dbs[i].name = dbName
isSystemDatabase(dbName) == dbName = SystemDb

\* getDefaultDatabaseName (lines 156-171): the configured default, else the
\* first key the range over the map yields, else the base database.
DefaultNames(cfg) ==
  IF cfg.defaultDatabase # <<>> THEN {cfg.defaultDatabase}
  ELSE IF cfg.databases # {} THEN {e.key : e \in cfg.databases}
  ELSE {BaseDatabase}

\* config.Databases: at most MaxConfigured entries with different keys.
ConfigMaps ==
  {m \in SUBSET [key : ConfigKeys, database : DbNames] :
     /\ Cardinality(m) <= MaxConfigured
     /\ \A e, f \in m : e.key = f.key => e = f}

\* What SHOW DATABASES returns, or that the query fails.
ServerLists ==
  {[fails |-> TRUE, names |-> <<>>]}
    \cup {[fails |-> FALSE, names |-> <<SystemDb>> \o n] :
            n \in {<<>>} \cup {<<d>> : d \in DbNames}}

\* A command line with --all or --patterns, the configuration file, and the
\* server.
ManagerInit ==
  /\ mgrInput \in [all : BOOLEAN,
                   patterns : {<<>>} \cup {<<p>> : p \in Patterns},
                   databases : ConfigMaps,
                   defaultDatabase : {<<>>, BaseDatabase},
                   server : ServerLists]
  /\ mgrPc = "resolve"
  /\ mgrDatabases = <<>>
  /\ mgrMatched = <<>>

\* resolveDatabases (part_004 lines 541-584): with --all or with patterns
\* the list comes from GetMatchedDatabases; without, no --database flag is
\* given here and the list is empty.
MgrResolve ==
  /\ mgrPc = "resolve"
  /\ mgrPc' = IF mgrInput.all \/ Len(mgrInput.patterns) > 0
              THEN "configured" ELSE "done"
  /\ UNCHANGED <<mgrInput, mgrDatabases, mgrMatched>>
  /\ UNCHANGED restG

\* DiscoverDatabases, lines 64-72: the range over config.Databases, in the
\* order Go chooses.
MgrConfigured ==
  /\ mgrPc = "configured"
  /\ \E order \in Perms(mgrInput.databases) :
       mgrDatabases' =
         [i \in DOMAIN order |->
            [name |-> order[i].database, configKey |-> order[i].key,
             matched |-> matchesPatterns(order[i].database, mgrInput.patterns)]]
  /\ mgrPc' = "default"
  /\ UNCHANGED <<mgrInput, mgrMatched>>
  /\ UNCHANGED restG

\* DiscoverDatabases, lines 74-83: the default database.
MgrDefault ==
  /\ mgrPc = "default"
  /\ \E defaultName \in DefaultNames(mgrInput) :
       mgrDatabases' =
         IF defaultName # <<>> /\ ~isDatabaseInList(defaultName, mgrDatabases)
         THEN Append(mgrDatabases,
                [name |-> defaultName, configKey |-> <<"default">>,
                 matched |-> matchesPatterns(defaultName, mgrInput.patterns)])
         ELSE mgrDatabases
  /\ mgrPc' = "server"
  /\ UNCHANGED <<mgrInput, mgrMatched>>
  /\ UNCHANGED restG

\* discoverFromServer (lines 218-249): the databases of the server that are
\* no system schema and match.
RECURSIVE discoverFromServer(_, _)
discoverFromServer(names, patterns) ==
  IF names = <<>> THEN <<>>
  ELSE (IF ~isSystemDatabase(Head(names)) /\ matchesPatterns(Head(names), patterns)
        THEN << [name |-> Head(names), configKey |-> <<"discovered">>,
                 matched |-> TRUE] >>
        ELSE <<>>) \o discoverFromServer(Tail(names), patterns)

\* DiscoverDatabases, lines 85-96.
MgrServer ==
  /\ mgrPc = "server"
  /\ mgrDatabases' =
       IF Len(mgrInput.patterns) > 0 /\ ~mgrInput.server.fails
       THEN mgrDatabases \o discoverFromServer(mgrInput.server.names, mgrInput.patterns)
       ELSE mgrDatabases
  /\ mgrPc' = "matched"
  /\ UNCHANGED <<mgrInput, mgrMatched>>
  /\ UNCHANGED restG

\* GetMatchedDatabases, lines 105-112.
MgrMatched ==
  /\ mgrPc = "matched"
  /\ mgrMatched' =
       LET sel == SelectSeq(mgrDatabases, LAMBDA db : db.matched)
       IN [i \in DOMAIN sel |-> sel[i].name]
  /\ mgrPc' = "done"
  /\ UNCHANGED <<mgrInput, mgrDatabases>>
  /\ UNCHANGED restG

ManagerNext == MgrResolve \/ MgrConfigured \/ MgrDefault \/ MgrServer \/ MgrMatched

InitManager == MOff /\ ResolverOff /\ OrchOff /\ ApplyOff /\ InsertOff /\ CopyOff /\ SetupOff
  /\ ParserOff /\ CreatorOff /\ ManagerInit

SpecManager == InitManager /\ [][ManagerNext]_vars

\* ----------------------------------------------------------------------
\* Properties of the manager (checked under SpecManager).
\* ----------------------------------------------------------------------

\* The glob: "*" matches any run of characters, "?" exactly one character,
\* every other character itself; the whole name must be matched.
RECURSIVE GlobAt(_, _, _, _)
GlobAt(p, i, s, j) ==
  IF i > Len(p) THEN j = Len(s) + 1
  ELSE CASE p[i] = "*" -> \E k \in j..(Len(s) + 1) : GlobAt(p, i + 1, s, k)
         [] p[i] = "?" -> j <= Len(s) /\ GlobAt(p, i + 1, s, j + 1)
         [] OTHER -> j <= Len(s) /\ s[j] = p[i] /\ GlobAt(p, i + 1, s, j + 1)
Glob(p, s) == GlobAt(p, 1, s, 1)

\* C24: a configured database is in the list resolved from a pattern if and
\* only if its whole name matches the glob (so shop_* selects shop_001 and
\* shop_002 of {shop_001, shop_002, headquarters} and nothing else).
C24_SelectedIffGlobMatches ==
  (mgrPc = "done" /\ Len(mgrInput.patterns) = 1) =>
    \A e \in mgrInput.databases :
      (e.database \in Range(mgrMatched)) <=> Glob(mgrInput.patterns[1], e.database)

\* C26: the target list resolved from patterns or from --all contains each
\* database name at most once (so that one Up or Down command runs the
\* Migration Runner at most once per database).
C26_TargetsListedOnce ==
  mgrPc = "done" =>
    \A i, j \in DOMAIN mgrMatched : mgrMatched[i] = mgrMatched[j] => i = j

\* ======================================================================
\* Part IX : Migrator.Init (the ledger table and the lock table)
\* ======================================================================

MaxInitCalls == 3     \* calls of Init on one database

MigrationsTable == "schema_migrations"
LockTable       == "schema_migrations_lock"

\* The seed row: INSERT INTO lock (id, locked) VALUES (1, FALSE).
SeedRow == [id |-> 1, locked |-> FALSE]

\* How one call of createMigrationsTable / createLockTable can go: every
\* statement succeeds, TableExists fails, CREATE TABLE fails, or the
\* INSERT of the seed row fails (or the process dies before it).
SetupOutcomes == {"ok", "checkErr", "createErr", "insertErr"}

\* A database no Init has run on.
SetupInit ==
  /\ dbTables = {} /\ lockRows = {} /\ ledgerRows = {}
  /\ initPc = "idle"
  /\ initErr = "none"
  /\ initCalls = 0
  /\ initBefore = <<>>

\* A process calls Init (lines 340-341).
InitCall ==
  /\ initPc = "idle"
  /\ initCalls < MaxInitCalls
  /\ initCalls' = initCalls + 1
  /\ initPc' = "migrations"
  /\ initErr' = "none"
  /\ initBefore' = [tbl |-> dbTables, lockRows |-> lockRows,
                    ledgerRows |-> ledgerRows]
  /\ UNCHANGED <<dbTables, lockRows, ledgerRows>>
  /\ UNCHANGED restN

\* createMigrationsTable (lines 554-582) and Init's test of its error
\* (lines 344-346).
InitMigrationsTable ==
  /\ initPc = "migrations"
  /\ \E outcome \in SetupOutcomes \ {"insertErr"} :
       IF outcome = "checkErr"
       THEN initErr' = "migrationsErr" /\ initPc' = "returned" /\ UNCHANGED dbTables
       ELSE IF MigrationsTable \in dbTables
       THEN initPc' = "lock" /\ UNCHANGED <<initErr, dbTables>>
       ELSE IF outcome = "createErr"
       THEN initErr' = "migrationsErr" /\ initPc' = "returned" /\ UNCHANGED dbTables
       ELSE /\ dbTables' = dbTables \cup {MigrationsTable}
            /\ initPc' = "lock"
            /\ UNCHANGED initErr
  /\ UNCHANGED <<lockRows, ledgerRows, initCalls, initBefore>>
  /\ UNCHANGED restN

\* createLockTable (lines 585-622) and the return of Init (lines 349-354).
InitLockTable ==
  /\ initPc = "lock"
  /\ \E outcome \in SetupOutcomes :
       IF outcome = "checkErr"
       THEN initErr' = "lockErr" /\ UNCHANGED <<dbTables, lockRows>>
       ELSE IF LockTable \in dbTables
       THEN UNCHANGED <<initErr, dbTables, lockRows>>
       ELSE IF outcome = "createErr"
       THEN initErr' = "lockErr" /\ UNCHANGED <<dbTables, lockRows>>
       ELSE IF outcome = "insertErr"
       THEN /\ dbTables' = dbTables \cup {LockTable}
            /\ initErr' = "lockErr"
            /\ UNCHANGED lockRows
       ELSE /\ dbTables' = dbTables \cup {LockTable}
            /\ lockRows' = {SeedRow}
            /\ UNCHANGED initErr
  /\ initPc' = "returned"
  /\ UNCHANGED <<ledgerRows, initCalls, initBefore>>
  /\ UNCHANGED restN

\* The caller has the result; the next call may follow.
InitReturn ==
  /\ initPc = "returned"
  /\ initPc' = "idle"
  /\ UNCHANGED <<dbTables, lockRows, ledgerRows, initErr, initCalls, initBefore>>
  /\ UNCHANGED restN

\* Between two calls of Init a runner works on the database: acquireLock
\* and releaseLock (lines 625-657) update the row id = 1, recordMigration
\* (lines 724-732) inserts into the ledger.
RunnerLocks ==
  /\ initPc = "idle" /\ LockTable \in dbTables
  /\ \E to \in BOOLEAN :
       lockRows' = {IF row.id = 1 /\ (to = FALSE \/ row.locked = FALSE)
                    THEN [row EXCEPT !.locked = to] ELSE row : row \in lockRows}
  /\ UNCHANGED <<dbTables, ledgerRows, initPc, initErr, initCalls, initBefore>>
  /\ UNCHANGED restN

RunnerRecords ==
  /\ initPc = "idle" /\ MigrationsTable \in dbTables
  /\ \E v \in Versions : ledgerRows' = ledgerRows \cup {v}
  /\ UNCHANGED <<dbTables, lockRows, initPc, initErr, initCalls, initBefore>>
  /\ UNCHANGED restN

SetupNext ==
  \/ InitCall \/ InitMigrationsTable \/ InitLockTable \/ InitReturn
  \/ RunnerLocks \/ RunnerRecords

InitSetup == MOff /\ ResolverOff /\ OrchOff /\ ApplyOff /\ InsertOff /\ CopyOff
  /\ ParserOff /\ CreatorOff /\ ManagerOff /\ SetupInit

SpecSetup == InitSetup /\ [][SetupNext]_vars

\* ----------------------------------------------------------------------
\* Properties of Init (checked under SpecSetup).
\* ----------------------------------------------------------------------

\* C25: when a call of Init has returned without error, whichever call it
\* is, both tables exist, the lock table holds the seed row id 1 and no
\* other row, and the rows that were there when the call began are as they
\* were.
C25_InitIdempotent ==
  (initPc = "returned" /\ initErr = "none") =>
    /\ dbTables = {MigrationsTable, LockTable}
    /\ {row.id : row \in lockRows} = {1} /\ Cardinality(lockRows) = 1
    /\ MigrationsTable \in initBefore.tbl => ledgerRows = initBefore.ledgerRows
    /\ LockTable \in initBefore.tbl => lockRows = initBefore.lockRows

\* The half of C25 about what is already there: a call of Init changes no
\* row of a table that existed when it began.
C25_InitKeepsRows ==
  initPc \in {"migrations", "lock", "returned"} =>
    /\ MigrationsTable \in initBefore.tbl => ledgerRows = initBefore.ledgerRows
    /\ LockTable \in initBefore.tbl => lockRows = initBefore.lockRows

\* ----------------------------------------------------------------------
\* The resolver on lists that pass ValidateStatements (checked under
\* SpecResolver).
\* ----------------------------------------------------------------------

\* s is t with its elements in another order.
IsPermutation(s, t) ==
  /\ Len(s) = Len(t)
  /\ \E f \in Perms(DOMAIN t) : \A i \in DOMAIN t : s[i] = t[f[i]]

\* C29: for a list that ValidateStatements accepts (no two statements of the
\* same kind and name) and whose dependencies have no cycle,
\* SortByDependencies returns no error and a permutation of the list, also
\* when a table and a view carry the same name.
C29_ValidAcyclicListIsPermuted ==
  (rpc = "done" /\ ~ValidateStatements(statements) /\ ~HasCycle(statements))
    => (output.err = "none" /\ IsPermutation(output.list, statements))

=============================================================================
